---- MODULE Spec2Model ----
(***************************************************************************)
(* whosay: the alert manager (internal/alerts, internal/collectors/alerts), *)
(* the network rate calculator with its traffic history, the temperature    *)
(* history, the log watcher with its cache, and the command with its watch  *)
(* loop (cmd/root.go).                                                      *)
(*                                                                          *)
(* Conventions.                                                             *)
(*  - Go slices are sequences: Go index i is index i + 1 here.              *)
(*  - Go maps are functions; a key is in the map iff it is in the DOMAIN.   *)
(*  - Percentages (float64) are held in tenths: 74.9 is 749, 10 is 100.     *)
(*  - Alert.Time (time.Now()) is the ordinal of the alert, a logical clock. *)
(*  - The wall clock of the network and temperature code is in              *)
(*    milliseconds; time.Now() is read once per call.                       *)
(*  - Rates (float64) are exact fractions <<numerator, denominator>> in     *)
(*    lowest terms: the rounding of float64 is left out.                    *)
(*  - Byte counters are unsigned words that wrap around; the word is        *)
(*    UintBits wide here, 64 in the code.                                   *)
(***************************************************************************)
EXTENDS Integers, Sequences, FiniteSets, TLC

VARIABLES
    Alerts,        \* alertManager.Alerts, newest first
    Thresholds,    \* alertManager.Thresholds
    alertClock,    \* number of alerts ever stored; the next alert's Time is alertClock + 1
    addedLog,      \* history: every alert handed to the store, in the order added
    lastOp,        \* history: the last handler that ran, its input, and alertClock, Len(Alerts)
                   \* and the Times of the unacknowledged alerts before it
    burst,         \* number of CheckCPU calls of the sustained load made so far
    lastReadings,  \* interface -> the reading of the last successful GetNetworkUsage
    lastReadTime,  \* the time of init() or of the last successful GetNetworkUsage
    trafficHistory,     \* interface -> its rate samples, oldest first
    temperatureHistory, \* the temperature records, oldest first
    now,           \* the wall clock, in milliseconds
    netResult,     \* what the last GetNetworkUsage returned, by interface
    pushedLog,     \* history: interface -> every sample pushed for it, in push order
    tempLog,       \* history: every temperature record stored, in push order
    netOp,         \* history: the last network or temperature call, its inputs and the state it found
    netBurst,      \* number of GetNetworkUsage calls of the steady sampling made so far
    tempBurst,     \* number of StoreTemperatureHistory calls of the steady sampling made so far
    free,          \* number of calls made with freely chosen inputs
    files,         \* the file system: path -> [exists, lines, mtime]
    logCache,      \* logCache: path -> the entries parsed for it, newest first
    logWatchers,   \* logWatchers: path -> [lastSize, lastModTime, watching]
    pollers,       \* path -> number of poller goroutines started for it
    logCacheMutex, \* [writer, readers]: who holds logCacheMutex
    fg,            \* the foreground goroutine inside getLogEntries: its position and locals
    poll,          \* path -> the poller goroutine of the path: its position and locals
    logEvent,      \* history: the last step of the log code, how it ended, and what
                   \* getLogEntries returned if the step was its return
    changes,       \* number of changes made to the files
    calls,         \* number of getLogEntries calls made, up to MaxCalls
    readFailures,  \* number of reads that failed before the end of the file
    networkTrafficMu, \* the goroutine that holds networkTrafficMu, or "none"
    caller,        \* goroutine -> its position in GetNetworkUsage or getTrafficHistory, and its locals
    histRead,      \* history: the last step of a caller, and what getTrafficHistory read
    netCalls,      \* number of calls made by the callers
    ui,            \* history: the last call of a function of internal/ui, its
                   \* arguments and what it returned
    parseCall,     \* history: the last parseLogFile call made on its own, the
                   \* lines it scanned and the entries it returned
    watch          \* the command: its position in Execute and runWatchMode, its locals,
                   \* the steps of the cycle it is in and the length of its last sleep

alertVars == <<Alerts, Thresholds, alertClock, addedLog, lastOp, burst>>
netVars == <<lastReadings, lastReadTime, trafficHistory, netResult, pushedLog>>
tempVars == <<temperatureHistory, tempLog>>
sampleVars == <<netVars, tempVars, now, netOp, netBurst, tempBurst>>
logVars == <<files, logCache, logWatchers, pollers, logCacheMutex, fg, poll,
             logEvent, changes, calls, readFailures>>
\* the state of the subsystems modelled after the alert manager and the samplers
callerVars == <<networkTrafficMu, caller, histRead, netCalls>>
laterVars == <<logVars, callerVars, watch, ui, parseCall>>
vars == <<alertVars, sampleVars, free, laterVars>>

----------------------------------------------------------------------------
(* Bounds of the exploration *)

\* calls with freely chosen inputs in one behaviour
MaxOps == 3
\* longest sustained load: CheckCPU called with the same critical reading
MaxBurst == 105

----------------------------------------------------------------------------
(* internal/alerts/alerts.go *)

Info == 0
Warning == 1
Critical == 2

Levels == {Info, Warning, Critical}

MaxAlerts == 100

EnableAlerts == TRUE

DefaultThresholds ==
    [CPUWarning |-> 750, CPUCritical |-> 900,
     MemoryWarning |-> 800, MemoryCritical |-> 950,
     DiskWarning |-> 850, DiskCritical |-> 950]

Min(a, b) == IF a < b THEN a ELSE b
Max(a, b) == IF a > b THEN a ELSE b

\* an alert that is born acknowledged
NewAlertAcknowledged(level, title, message, resource, value, threshold) ==
    [Level |-> level, Title |-> title, Message |-> message, Resource |-> resource,
     Value |-> value, Threshold |-> threshold, Time |-> alertClock + 1,
     Acknowledged |-> TRUE]

\* the Alert literal of AddAlert
NewAlert(level, title, message, resource, value, threshold) ==
    [Level |-> level, Title |-> title, Message |-> message, Resource |-> resource,
     Value |-> value, Threshold |-> threshold, Time |-> alertClock + 1,
     Acknowledged |-> FALSE]

\* am.Alerts = append([]Alert{alert}, am.Alerts...)
Prepend(alert, store) == <<alert>> \o store

\* a truncation that keeps the tail of the store instead of its head
TruncateDropsNewest(store) ==
    IF Len(store) > MaxAlerts
    THEN SubSeq(store, Len(store) - MaxAlerts + 1, Len(store))
    ELSE store

\* if len(am.Alerts) > am.MaxAlerts { am.Alerts = am.Alerts[:am.MaxAlerts] }
Truncate(store) ==
    IF Len(store) > MaxAlerts THEN SubSeq(store, 1, MaxAlerts) ELSE store

\* AddAlert on the store `store` (the store as the caller left it); PrintAlert,
\* which writes the alert to the console and changes no state, is left out
AddAlert(level, title, message, resource, value, threshold, store) ==
    IF ~EnableAlerts
    THEN /\ Alerts' = store
         /\ UNCHANGED <<alertClock, addedLog>>
    ELSE LET alert == NewAlert(level, title, message, resource, value, threshold)
         IN /\ Alerts' = Truncate(Prepend(alert, store))
            /\ alertClock' = alertClock + 1
            /\ addedLog' = Append(addedLog, alert)

\* the comparison written with > instead of >=
CheckLevelStrict(usage, warning, critical) ==
    IF usage > critical THEN Critical
    ELSE IF usage > warning THEN Warning
    ELSE -1

\* the branch a Check* call takes: Critical, Warning or -1 for no alert
CheckLevel(usage, warning, critical) ==
    IF usage >= critical THEN Critical
    ELSE IF usage >= warning THEN Warning
    ELSE -1

Check(resource, usage, warning, critical) ==
    LET level == CheckLevel(usage, warning, critical)
    IN IF level = Critical
       THEN AddAlert(Critical, <<"Critical", resource, "Usage">>,
                     <<resource, usage, "critical", critical>>,
                     resource, usage, critical, Alerts)
       ELSE IF level = Warning
       THEN AddAlert(Warning, <<"High", resource, "Usage">>,
                     <<resource, usage, "warning", warning>>,
                     resource, usage, warning, Alerts)
       ELSE UNCHANGED <<Alerts, alertClock, addedLog>>

Op(name, arg) ==
    [op |-> name, arg |-> arg, clockBefore |-> alertClock, lenBefore |-> Len(Alerts),
     activeBefore |-> {Alerts[i].Time : i \in {k \in 1..Len(Alerts) : ~Alerts[k].Acknowledged}}]

CheckCPU(usage) ==
    /\ Check("CPU", usage, Thresholds.CPUWarning, Thresholds.CPUCritical)
    /\ UNCHANGED Thresholds
    /\ lastOp' = Op("CheckCPU", usage)

CheckMemory(usage) ==
    /\ Check("Memory", usage, Thresholds.MemoryWarning, Thresholds.MemoryCritical)
    /\ UNCHANGED Thresholds
    /\ lastOp' = Op("CheckMemory", usage)

CheckDisk(usage) ==
    /\ Check("Disk", usage, Thresholds.DiskWarning, Thresholds.DiskCritical)
    /\ UNCHANGED Thresholds
    /\ lastOp' = Op("CheckDisk", usage)

\* a direct AddAlert call by a client of the manager
AddAlertCall(level) ==
    /\ AddAlert(level, <<"Custom">>, <<"custom">>, "Custom", 0, 0, Alerts)
    /\ UNCHANGED Thresholds
    /\ lastOp' = Op("AddAlert", level)

\* a filter that keeps the acknowledged alerts
GetActiveAlertsInverted == SelectSeq(Alerts, LAMBDA a : a.Acknowledged)

GetActiveAlerts == SelectSeq(Alerts, LAMBDA a : ~a.Acknowledged)

\* an acknowledgement that flips the flag instead of setting it
AcknowledgedAtToggles(store, index) ==
    IF index >= 0 /\ index < Len(store)
    THEN [store EXCEPT ![index + 1].Acknowledged = ~@]
    ELSE store

\* AcknowledgeAlert(index), index a Go index
AcknowledgedAt(store, index) ==
    IF index >= 0 /\ index < Len(store)
    THEN [store EXCEPT ![index + 1].Acknowledged = TRUE]
    ELSE store

AcknowledgeAlert(index) ==
    /\ Alerts' = AcknowledgedAt(Alerts, index)
    /\ UNCHANGED <<Thresholds, alertClock, addedLog>>
    /\ lastOp' = Op("AcknowledgeAlert", index)

\* a summary that counts the acknowledged alerts too
CountedAlways(alert) == TRUE

\* if !alert.Acknowledged { switch alert.Level ... }
Counted(alert) == ~alert.Acknowledged

\* the loop of GetAlertsSummary from index i on, for the counter of one level
RECURSIVE SummaryLoop(_, _, _)
SummaryLoop(store, i, level) ==
    IF i > Len(store) THEN 0
    ELSE (IF Counted(store[i]) /\ store[i].Level = level THEN 1 ELSE 0)
            + SummaryLoop(store, i + 1, level)

\* GetAlertsSummary() returns infoCount, warningCount, criticalCount
GetAlertsSummary ==
    <<SummaryLoop(Alerts, 1, Info), SummaryLoop(Alerts, 1, Warning),
      SummaryLoop(Alerts, 1, Critical)>>

----------------------------------------------------------------------------
(* internal/collectors/alerts.go *)

\* the validation written with > instead of >=
ValidWarningStrict(warn, crit) == IF warn > crit THEN crit - 100 ELSE warn

\* if warn >= crit { warn = crit - 10 }
ValidWarning(warn, crit) == IF warn >= crit THEN crit - 100 ELSE warn

ConfigureAlertThresholds(cpuWarn, cpuCrit, memWarn, memCrit, diskWarn, diskCrit) ==
    /\ Thresholds' =
          [CPUWarning |-> ValidWarning(cpuWarn, cpuCrit), CPUCritical |-> cpuCrit,
           MemoryWarning |-> ValidWarning(memWarn, memCrit), MemoryCritical |-> memCrit,
           DiskWarning |-> ValidWarning(diskWarn, diskCrit), DiskCritical |-> diskCrit]
    /\ AddAlert(Info, <<"Alert Thresholds Updated">>, <<"thresholds updated">>,
                "System", 0, 0, Alerts)
    /\ lastOp' = Op("ConfigureAlertThresholds",
                    <<cpuWarn, cpuCrit, memWarn, memCrit, diskWarn, diskCrit>>)

\* a loop that stops one short of the end of the store
AcknowledgeAllButLast(store) ==
    [i \in 1..Len(store) |->
        IF i < Len(store) THEN [store[i] EXCEPT !.Acknowledged = TRUE] ELSE store[i]]

\* for i := range alertManager.Alerts { alertManager.Alerts[i].Acknowledged = true }
AcknowledgeEvery(store) ==
    [i \in 1..Len(store) |-> [store[i] EXCEPT !.Acknowledged = TRUE]]

AcknowledgeAllAlerts ==
    /\ AddAlert(Info, <<"Alerts Acknowledged">>, <<"all acknowledged">>,
                "System", 0, 0, AcknowledgeEvery(Alerts))
    /\ UNCHANGED Thresholds
    /\ lastOp' = Op("AcknowledgeAllAlerts", <<>>)

----------------------------------------------------------------------------
(* Inputs *)

\* readings, in tenths of a percent: below, between and above the default
\* thresholds, and on them
CPUUsages == {749, 800, 950}
MemoryUsages == {800, 950}
DiskUsages == {849, 950}

\* <<cpuWarn, cpuCrit, memWarn, memCrit, diskWarn, diskCrit>> handed to
\* ConfigureAlertThresholds: a warning above, on and below its critical
ThresholdInputs ==
    {<<950, 900, 800, 950, 850, 950>>,
     <<900, 900, 950, 900, 990, 990>>,
     <<600, 800, 700, 900, 500, 600>>}

\* Go indexes handed to AcknowledgeAlert: in and out of range
AckIndexes == {-1, 0, Len(Alerts) - 1, Len(Alerts)}

\* the reading of the sustained load, CPU at 95.0: the highest of the readings
SustainedUsage == CHOOSE u \in CPUUsages : \A v \in CPUUsages : v <= u

----------------------------------------------------------------------------
(* Exact fractions *)

Abs(x) == IF x < 0 THEN -x ELSE x

RECURSIVE GCD(_, _)
GCD(a, b) == IF b = 0 THEN a ELSE GCD(b, a % b)

\* n / d in lowest terms, d > 0
Frac(n, d) == LET g == GCD(Abs(n), d) IN <<n \div g, d \div g>>

Zero == <<0, 1>>

----------------------------------------------------------------------------
(* The network rate calculator and the traffic history *)

\* width of the byte counters of the model, in bits
UintBits == 20

Modulus == 2 ^ UintBits

historyLength == 60

\* if elapsed < 0.1 { elapsed = 0.1 }, in milliseconds
MinElapsed == 100

Ifaces == {"eth0", "wlan0"}

\* an entry of the map readNetworkStats returns; the packet and error counters,
\* which GetNetworkUsage copies and never reads, are left out
MkReading(iface, rx, tx) ==
    [Interface |-> iface, BytesReceived |-> rx, BytesSent |-> tx,
     RxRate |-> Zero, TxRate |-> Zero]

\* current.BytesReceived - prev.BytesReceived, on unsigned words
USub(a, b) == (a - b) % Modulus

\* elapsed := now.Sub(lastReadTime).Seconds(), floored at 0.1
Elapsed(t, last) ==
    IF t - last < MinElapsed THEN MinElapsed ELSE t - last

\* float64(cur-prev) / elapsed, then (x * 8) / 1000000: megabits per second;
\* with elapsed in milliseconds this is delta / (elapsed * 125)
RateMbps(cur, prev, elapsed) == Frac(USub(cur, prev), elapsed * 125)

\* a push that evicts as soon as the history is full
PushHistoryEvictsEarly(history, entry) ==
    IF Len(history) + 1 >= historyLength
    THEN Tail(Append(history, entry))
    ELSE Append(history, entry)

\* history = append(history, historyEntry); if len(history) > historyLength
\* { history = history[1:] }
PushHistory(history, entry) ==
    IF Len(history) + 1 > historyLength
    THEN Tail(Append(history, entry))
    ELSE Append(history, entry)

\* updateTrafficHistory(ifaceName, rxMbps, txMbps) at time t, on the map `hist`
updateTrafficHistory(hist, iface, rxMbps, txMbps, t) ==
    LET entry == [Interface |-> iface, RxRate |-> rxMbps, TxRate |-> txMbps,
                  Timestamp |-> t]
        old == IF iface \in DOMAIN hist THEN hist[iface] ELSE <<>>
    IN [i \in DOMAIN hist \cup {iface} |->
           IF i = iface THEN PushHistory(old, entry) ELSE hist[i]]

\* the readings that become the baseline of the next call, if only the
\* interfaces already known were kept
StoredReadingsKnownOnly(stats) ==
    [i \in DOMAIN stats \cap DOMAIN lastReadings |-> stats[i]]

\* lastReadings = networkStats
StoredReadings(stats) == stats

\* the interface's entry of the result: current, with its rates when there is
\* a previous reading
Rated(stats, iface, elapsed) ==
    IF iface \in DOMAIN lastReadings
    THEN [stats[iface] EXCEPT
            !.RxRate = RateMbps(stats[iface].BytesReceived,
                                lastReadings[iface].BytesReceived, elapsed),
            !.TxRate = RateMbps(stats[iface].BytesSent,
                                lastReadings[iface].BytesSent, elapsed)]
    ELSE stats[iface]

RECURSIVE UpdateAll(_, _, _, _)
\* the calls of updateTrafficHistory made by the loop over the interfaces in
\* `todo`; the calls are for different keys, so their order does not matter
UpdateAll(hist, todo, result, t) ==
    IF todo = {} THEN hist
    ELSE LET i == CHOOSE x \in todo : TRUE
         IN UpdateAll(updateTrafficHistory(hist, i, result[i].RxRate, result[i].TxRate, t),
                      todo \ {i}, result, t)

\* the call made, with what it found; afterFailure: the call before it was a
\* GetNetworkUsage whose readNetworkStats failed
NetOp(name, err, stats) ==
    [op |-> name, err |-> err, stats |-> stats, prev |-> lastReadings,
     prevTime |-> lastReadTime,
     afterFailure |-> (netOp.op = "GetNetworkUsage" /\ netOp.err),
     pushedBefore |-> [i \in Ifaces |-> Len(pushedLog[i])],
     tempBefore |-> Len(tempLog)]

\* a GetNetworkUsage that sets lastReadTime on a failed read as well
GetNetworkUsageStampsFailure(err, stats, dt) ==
    LET t == now + dt
        elapsed == Elapsed(t, lastReadTime)
        known == DOMAIN stats \cap DOMAIN lastReadings
        result == [i \in DOMAIN stats |-> Rated(stats, i, elapsed)]
    IN /\ now' = t
       /\ netOp' = NetOp("GetNetworkUsage", err, stats)
       /\ UNCHANGED tempVars
       /\ IF err
          THEN /\ netResult' = <<>>
               /\ lastReadTime' = t
               /\ UNCHANGED <<lastReadings, trafficHistory, pushedLog>>
          ELSE /\ netResult' = result
               /\ trafficHistory' = UpdateAll(trafficHistory, known, result, t)
               /\ pushedLog' =
                     [i \in Ifaces |->
                         IF i \in known
                         THEN Append(pushedLog[i],
                                     [Interface |-> i, RxRate |-> result[i].RxRate,
                                      TxRate |-> result[i].TxRate, Timestamp |-> t])
                         ELSE pushedLog[i]]
               /\ lastReadings' = StoredReadings(stats)
               /\ lastReadTime' = t

\* GetNetworkUsage, dt milliseconds after the previous call of the model;
\* readNetworkStats fails (err) or returns stats. The whole call runs under
\* networkTrafficMu.
GetNetworkUsage(err, stats, dt) ==
    LET t == now + dt
        elapsed == Elapsed(t, lastReadTime)
        known == DOMAIN stats \cap DOMAIN lastReadings
        result == [i \in DOMAIN stats |-> Rated(stats, i, elapsed)]
    IN /\ now' = t
       /\ netOp' = NetOp("GetNetworkUsage", err, stats)
       /\ UNCHANGED tempVars
       /\ IF err
          THEN /\ netResult' = <<>>
               /\ UNCHANGED <<lastReadings, lastReadTime, trafficHistory, pushedLog>>
          ELSE /\ netResult' = result
               /\ trafficHistory' = UpdateAll(trafficHistory, known, result, t)
               /\ pushedLog' =
                     [i \in Ifaces |->
                         IF i \in known
                         THEN Append(pushedLog[i],
                                     [Interface |-> i, RxRate |-> result[i].RxRate,
                                      TxRate |-> result[i].TxRate, Timestamp |-> t])
                         ELSE pushedLog[i]]
               /\ lastReadings' = StoredReadings(stats)
               /\ lastReadTime' = t

----------------------------------------------------------------------------
(* internal/collectors/temperature.go *)

TemperatureHistoryLength == 1440

\* a trim that keeps the first 1440 records
KeepFirst(history) ==
    IF Len(history) > TemperatureHistoryLength
    THEN SubSeq(history, 1, TemperatureHistoryLength)
    ELSE history

\* if len(temperatureHistory) > 1440
\* { temperatureHistory = temperatureHistory[len(temperatureHistory)-1440:] }
KeepLast(history) ==
    IF Len(history) > TemperatureHistoryLength
    THEN SubSeq(history, Len(history) - TemperatureHistoryLength + 1, Len(history))
    ELSE history

\* StoreTemperatureHistory(info), dt milliseconds after the previous call of
\* the model; the Components map, which is stored by reference, is left out
StoreTemperatureHistory(info, dt) ==
    LET t == now + dt
        record == [Timestamp |-> t, CPU |-> info.CPU, GPU |-> info.GPU]
    IN /\ now' = t
       /\ temperatureHistory' = KeepLast(Append(temperatureHistory, record))
       /\ tempLog' = Append(tempLog, record)
       /\ netOp' = NetOp("StoreTemperatureHistory", FALSE, info)
       /\ UNCHANGED netVars

----------------------------------------------------------------------------
(* Inputs of the samplers *)

\* <<BytesReceived, BytesSent>> of a reading
Counters == {<<1000, 1000>>, <<1001000, 501000>>}

\* the maps readNetworkStats returns: any set of interfaces, any counters
Snapshots ==
    UNION {{[i \in S |-> MkReading(i, c[i][1], c[i][2])] : c \in [S -> Counters]} :
             S \in SUBSET Ifaces}

\* milliseconds between two calls: back to back, under and over the floor
Intervals == {0, 50, 1000}

Temperatures == {[CPU |-> 45, GPU |-> 0], [CPU |-> 80, GPU |-> 60]}

\* steady sampling: once a second, idle interfaces, a cool CPU
SteadyInterval == CHOOSE d \in Intervals : \A e \in Intervals : e <= d
SteadyStats == [i \in Ifaces |-> MkReading(i, 1000, 1000)]
SteadyTemperature == CHOOSE x \in Temperatures : x.CPU = 45

\* calls with freely chosen inputs to the samplers in one behaviour
MaxSamples == 2

\* steady calls that push historyLength + 1 samples: the first is the baseline
MaxNetBurst == historyLength + 2
MaxTempBurst == TemperatureHistoryLength + 1

----------------------------------------------------------------------------
(* The samplers under their callers *)

InitSamplers ==
    /\ lastReadings = <<>>
    /\ lastReadTime = 0
    /\ trafficHistory = <<>>
    /\ temperatureHistory = <<>>
    /\ now = 0
    /\ netResult = <<>>
    /\ pushedLog = [i \in Ifaces |-> <<>>]
    /\ tempLog = <<>>
    /\ netOp = [op |-> "init", err |-> FALSE, stats |-> <<>>, prev |-> <<>>,
                prevTime |-> 0, afterFailure |-> FALSE,
                pushedBefore |-> [i \in Ifaces |-> 0],
                tempBefore |-> 0]
    /\ netBurst = 0
    /\ tempBurst = 0

\* Steady sampling comes first, the temperature before the network; freely
\* chosen calls follow it, and start on empty histories or on a history one
\* short of its capacity.
SampleStarts ==
    {<<0, 0>>, <<historyLength, 0>>, <<0, TemperatureHistoryLength - 1>>}

FreeSample ==
    /\ free < MaxSamples
    /\ free > 0 \/ <<netBurst, tempBurst>> \in SampleStarts
    /\ free' = free + 1
    /\ UNCHANGED <<netBurst, tempBurst, alertVars, laterVars>>

SteadyNetwork ==
    /\ free = 0
    /\ tempBurst \in {0, MaxTempBurst}
    /\ netBurst < MaxNetBurst
    /\ netBurst' = netBurst + 1
    /\ UNCHANGED <<tempBurst, free, alertVars, laterVars>>
    /\ GetNetworkUsage(FALSE, SteadyStats, SteadyInterval)

SteadyTemperatures ==
    /\ free = 0
    /\ netBurst = 0
    /\ tempBurst < MaxTempBurst
    /\ tempBurst' = tempBurst + 1
    /\ UNCHANGED <<netBurst, free, alertVars, laterVars>>
    /\ StoreTemperatureHistory(SteadyTemperature, SteadyInterval)

NextNet ==
    \/ SteadyNetwork
    \/ SteadyTemperatures
    \/ \E s \in Snapshots, d \in Intervals : FreeSample /\ GetNetworkUsage(FALSE, s, d)
    \/ FreeSample /\ GetNetworkUsage(TRUE, <<>>, SteadyInterval)
    \/ \E x \in Temperatures, d \in Intervals : FreeSample /\ StoreTemperatureHistory(x, d)

----------------------------------------------------------------------------
(* The log watcher and its cache (collectors: the log collector)           *)
(*                                                                          *)
(*  - A file is [exists, lines, mtime]; its size is counted in lines. The   *)
(*    files here stay far below the 50000 bytes beyond which getLogEntries  *)
(*    reads only the tail, and os.Open and os.Stat fail on a missing file   *)
(*    only. Every change of a file gives it a new mtime.                    *)
(*  - A line is the sequence of its words, in lower case, and carries no    *)
(*    timestamp, so that every entry gets the file's modification time.     *)
(*  - Opening and scanning a file is one step; the scanner may stop early   *)
(*    (bufio.Scanner ends the loop on a read error or on a line over its    *)
(*    token limit, and parseLogFile does not look at scanner.Err()).        *)
(*  - getLogEntries runs on the one goroutine of the command; every         *)
(*    watcher has its own goroutine. Lock, the access and Unlock are        *)
(*    separate steps of a goroutine.                                        *)

\* changes made to the files in one behaviour
MaxChanges == 2
\* getLogEntries calls that are counted; the calls after them are not
MaxCalls == 2
\* reads that stop before the end of the file in one behaviour
MaxReadFailures == 1

\* the watched paths: the first of commonLogPaths["linux"]
Paths == {"/var/log/syslog"}

defaultLogLines == 20

ErrorLine == <<"disk", "error">>
PlainLine == <<"started">>
DebugLine == <<"debug", "tick">>

\* the contents a file is given: empty, two lines, and the two with one appended
Contents == {<<>>, <<ErrorLine, PlainLine>>, <<ErrorLine, PlainLine, DebugLine>>}

\* limit and includeDebug handed to getLogEntries
Limits == {0, 1, 2, defaultLogLines}

\* logPatterns: level -> the words its pattern matches
logPatterns ==
    [error |-> {"error", "fail", "exception"},
     warning |-> {"warning", "warn"},
     info |-> {"info", "notice"},
     debug |-> {"debug"}]

\* pattern.pattern.MatchString(content)
MatchString(level, content) ==
    \E i \in 1..Len(content) : content[i] \in logPatterns[level]

\* the levels detectLogLevel(content) can return: it ranges over a map, in an
\* order that is not specified, and returns the level of the first match
detectLogLevel(content) ==
    LET matching == {l \in DOMAIN logPatterns : MatchString(l, content)}
    IN IF matching = {} THEN {"info"} ELSE matching

Reverse(seq) == [i \in 1..Len(seq) |-> seq[Len(seq) - i + 1]]

\* the entry lists parseLogFile can return for the scanned lines: one entry
\* per line, then reversed so that the newest is first
parseLogFile(lines, filePath, modTime) ==
    {Reverse([i \in 1..Len(lines) |->
                 [Timestamp |-> modTime, Content |-> lines[i],
                  Level |-> level[i], Source |-> filePath]]) :
        level \in {l \in [1..Len(lines) -> DOMAIN logPatterns] :
                      \A i \in 1..Len(lines) : l[i] \in detectLogLevel(lines[i])}}

\* what the scanner delivers of a file: all its lines, or the lines before
\* the one on which it stops
Scanned(lines) == {SubSeq(lines, 1, k) : k \in 0..Len(lines)}

\* the loop of filterLogEntries from index i on
RECURSIVE FilterLoop(_, _, _, _, _)
FilterLoop(entries, i, filtered, limit, includeDebug) ==
    IF i > Len(entries) THEN filtered
    ELSE IF ~includeDebug /\ entries[i].Level = "debug"
    THEN FilterLoop(entries, i + 1, filtered, limit, includeDebug)
    ELSE IF Len(filtered) + 1 >= limit
    THEN Append(filtered, entries[i])
    ELSE FilterLoop(entries, i + 1, Append(filtered, entries[i]), limit, includeDebug)

filterLogEntries(entries, limit, includeDebug) ==
    FilterLoop(entries, 1, <<>>, limit, includeDebug)

Main == "main"
NoOne == "none"

\* logCacheMutex.RLock() can return
CanRLock == logCacheMutex.writer = NoOne

\* a write lock that does not wait for the readers
CanLockBesideReaders == logCacheMutex.writer = NoOne

\* logCacheMutex.Lock() can return
CanLock == logCacheMutex.writer = NoOne /\ logCacheMutex.readers = {}

NoInfo == [size |-> 0, mtime |-> 0]
\* a goroutine at rest; `complete` is history: whether its last scan reached
\* the end of the file
Idle == [pc |-> "idle", path |-> "", info |-> NoInfo, entries |-> <<>>, complete |-> TRUE]
Waiting == [pc |-> "wait", info |-> NoInfo, entries |-> <<>>, complete |-> TRUE]
NoResult == [returned |-> FALSE]

\* fileInfo of a file that exists
FileInfo(p) == [size |-> Len(files[p].lines), mtime |-> files[p].mtime]

Event(who, what) == [who |-> who, what |-> what, result |-> NoResult]

notLogVars == <<alertVars, sampleVars, free, callerVars, watch, ui, parseCall>>

\* a guard that never finds the watcher
WatchedNever(filePath) == FALSE

\* if watcher, found := logWatchers[filePath]; found && watcher.watching
Watched(filePath) ==
    filePath \in DOMAIN logWatchers /\ logWatchers[filePath].watching

startLogWatcher(filePath, fileSize, modTime) ==
    IF Watched(filePath)
    THEN UNCHANGED <<logWatchers, pollers, poll>>
    ELSE /\ logWatchers' =
              [p \in DOMAIN logWatchers \cup {filePath} |->
                  IF p = filePath
                  THEN [lastSize |-> fileSize, lastModTime |-> modTime, watching |-> TRUE]
                  ELSE logWatchers[p]]
         /\ pollers' = [pollers EXCEPT ![filePath] = @ + 1]
         /\ poll' = [poll EXCEPT ![filePath] = Waiting]

\* logCache[filePath] = entries
Stored(filePath, entries) ==
    [p \in DOMAIN logCache \cup {filePath} |->
        IF p = filePath THEN entries ELSE logCache[p]]

\* getLogEntries returns `entries`, filtered from the list `from`
Return(what, limit, includeDebug, from, entries) ==
    /\ fg' = Idle
    /\ logEvent' = [who |-> Main, what |-> what,
                    result |-> [returned |-> TRUE, path |-> fg.path, limit |-> limit,
                                includeDebug |-> includeDebug, from |-> from,
                                entries |-> entries]]

\* getLogEntries(filePath, ...) is called; numLines and includeDebug are read
\* only by the filterLogEntries call of the return, and are drawn there
GetLogEntriesCall(filePath) ==
    /\ fg.pc = "idle"
    /\ calls' = Min(calls + 1, MaxCalls)
    /\ fg' = [Idle EXCEPT !.pc = "rlock", !.path = filePath]
    /\ logEvent' = Event(Main, "called")
    /\ UNCHANGED <<files, logCache, logWatchers, pollers, logCacheMutex, poll,
                   changes, readFailures, notLogVars>>

\* logCacheMutex.RLock()
FgRLock ==
    /\ fg.pc = "rlock"
    /\ CanRLock
    /\ logCacheMutex' = [logCacheMutex EXCEPT !.readers = @ \cup {Main}]
    /\ fg' = [fg EXCEPT !.pc = "read"]
    /\ logEvent' = Event(Main, "read locked")
    /\ UNCHANGED <<files, logCache, logWatchers, pollers, poll,
                   changes, calls, readFailures, notLogVars>>

\* cachedEntries, found := logCache[filePath]; RUnlock(); the return on a hit
FgReadCache(limit, includeDebug) ==
    /\ fg.pc = "read"
    /\ logCacheMutex' = [logCacheMutex EXCEPT !.readers = @ \ {Main}]
    /\ IF fg.path \in DOMAIN logCache /\ Len(logCache[fg.path]) > 0
       THEN Return("hit", limit, includeDebug, logCache[fg.path],
                   filterLogEntries(logCache[fg.path], limit, includeDebug))
       ELSE /\ fg' = [fg EXCEPT !.pc = "open"]
            /\ logEvent' = Event(Main, "miss")
    /\ UNCHANGED <<files, logCache, logWatchers, pollers, poll,
                   changes, calls, readFailures, notLogVars>>

\* os.Open, file.Stat and parseLogFile; the return on a file that is missing
FgOpenParse(scanned, limit, includeDebug) ==
    /\ fg.pc = "open"
    /\ IF ~files[fg.path].exists
       THEN /\ Return("open failed", limit, includeDebug, <<>>, <<>>)
            /\ UNCHANGED readFailures
       ELSE /\ scanned \in Scanned(files[fg.path].lines)
            /\ \E entries \in parseLogFile(scanned, fg.path, files[fg.path].mtime) :
                  fg' = [fg EXCEPT !.pc = "lock", !.info = FileInfo(fg.path),
                                   !.entries = entries,
                                   !.complete = (scanned = files[fg.path].lines)]
            /\ IF scanned = files[fg.path].lines
               THEN /\ logEvent' = Event(Main, "parsed")
                    /\ UNCHANGED readFailures
               ELSE /\ readFailures < MaxReadFailures
                    /\ readFailures' = readFailures + 1
                    /\ logEvent' = Event(Main, "read failed")
    /\ UNCHANGED <<files, logCache, logWatchers, pollers, logCacheMutex, poll,
                   changes, calls, notLogVars>>

\* logCacheMutex.Lock()
FgLock ==
    /\ fg.pc = "lock"
    /\ CanLock
    /\ logCacheMutex' = [logCacheMutex EXCEPT !.writer = Main]
    /\ fg' = [fg EXCEPT !.pc = "write"]
    /\ logEvent' = Event(Main, "locked")
    /\ UNCHANGED <<files, logCache, logWatchers, pollers, poll,
                   changes, calls, readFailures, notLogVars>>

\* logCache[filePath] = entries; Unlock()
FgWriteCache ==
    /\ fg.pc = "write"
    /\ logCache' = Stored(fg.path, fg.entries)
    /\ logCacheMutex' = [logCacheMutex EXCEPT !.writer = NoOne]
    /\ fg' = [fg EXCEPT !.pc = "watch"]
    /\ logEvent' = Event(Main, "stored")
    /\ UNCHANGED <<files, logWatchers, pollers, poll,
                   changes, calls, readFailures, notLogVars>>

\* startLogWatcher(filePath, fileSize, fileInfo.ModTime()) and the return
FgStartWatcherReturn(limit, includeDebug) ==
    /\ fg.pc = "watch"
    /\ startLogWatcher(fg.path, fg.info.size, fg.info.mtime)
    /\ Return(IF Watched(fg.path) THEN "watched already" ELSE "watcher started",
              limit, includeDebug, fg.entries,
              filterLogEntries(fg.entries, limit, includeDebug))
    /\ UNCHANGED <<files, logCache, logCacheMutex,
                   changes, calls, readFailures, notLogVars>>

\* case <-ticker.C: checkLogFileChanges(watcher), up to the comparison
PollTick(p) ==
    /\ pollers[p] > 0
    /\ poll[p].pc = "wait"
    /\ IF ~files[p].exists
       THEN /\ logEvent' = Event(p, "stat failed")
            /\ UNCHANGED poll
       ELSE IF FileInfo(p).size # logWatchers[p].lastSize
               \/ FileInfo(p).mtime # logWatchers[p].lastModTime
       THEN /\ poll' = [poll EXCEPT ![p].pc = "open", ![p].info = FileInfo(p)]
            /\ logEvent' = Event(p, "changed")
       ELSE /\ logEvent' = Event(p, "unchanged")
            /\ UNCHANGED poll
    /\ UNCHANGED <<files, logCache, logWatchers, pollers, logCacheMutex, fg,
                   changes, calls, readFailures, notLogVars>>

\* checkLogFileChanges: os.Open and parseLogFile
PollOpenParse(p, scanned) ==
    /\ pollers[p] > 0
    /\ poll[p].pc = "open"
    /\ IF ~files[p].exists
       THEN /\ poll' = [poll EXCEPT ![p] = Waiting]
            /\ logEvent' = Event(p, "open failed")
            /\ UNCHANGED readFailures
       ELSE /\ scanned \in Scanned(files[p].lines)
            /\ \E entries \in parseLogFile(scanned, p, poll[p].info.mtime) :
                  poll' = [poll EXCEPT ![p].pc = "lock", ![p].entries = entries,
                                       ![p].complete = (scanned = files[p].lines)]
            /\ IF scanned = files[p].lines
               THEN /\ logEvent' = Event(p, "parsed")
                    /\ UNCHANGED readFailures
               ELSE /\ readFailures < MaxReadFailures
                    /\ readFailures' = readFailures + 1
                    /\ logEvent' = Event(p, "read failed")
    /\ UNCHANGED <<files, logCache, logWatchers, pollers, logCacheMutex, fg,
                   changes, calls, notLogVars>>

\* checkLogFileChanges: logCacheMutex.Lock()
PollLock(p) ==
    /\ pollers[p] > 0
    /\ poll[p].pc = "lock"
    /\ CanLock
    /\ logCacheMutex' = [logCacheMutex EXCEPT !.writer = p]
    /\ poll' = [poll EXCEPT ![p].pc = "write"]
    /\ logEvent' = Event(p, "locked")
    /\ UNCHANGED <<files, logCache, logWatchers, pollers, fg,
                   changes, calls, readFailures, notLogVars>>

\* checkLogFileChanges: logCache[watcher.filePath] = entries; Unlock();
\* watcher.lastSize and watcher.lastModTime, which only this goroutine reads
PollWriteCache(p) ==
    /\ pollers[p] > 0
    /\ poll[p].pc = "write"
    /\ logCache' = Stored(p, poll[p].entries)
    /\ logCacheMutex' = [logCacheMutex EXCEPT !.writer = NoOne]
    /\ logWatchers' = [logWatchers EXCEPT ![p].lastSize = poll[p].info.size,
                                          ![p].lastModTime = poll[p].info.mtime]
    /\ poll' = [poll EXCEPT ![p] = Waiting]
    /\ logEvent' = Event(p, "stored")
    /\ UNCHANGED <<files, pollers, fg,
                   changes, calls, readFailures, notLogVars>>

\* something outside the program writes the file, or creates it
WriteFile(p, lines) ==
    /\ changes < MaxChanges
    /\ ~files[p].exists \/ lines # files[p].lines
    /\ files' = [files EXCEPT ![p] = [exists |-> TRUE, lines |-> lines,
                                      mtime |-> @.mtime + 1]]
    /\ changes' = changes + 1
    /\ logEvent' = Event("fs", "changed")
    /\ UNCHANGED <<logCache, logWatchers, pollers, logCacheMutex, fg, poll,
                   calls, readFailures, notLogVars>>

\* something outside the program removes the file
RemoveFile(p) ==
    /\ changes < MaxChanges
    /\ files[p].exists
    /\ files' = [files EXCEPT ![p].exists = FALSE]
    /\ changes' = changes + 1
    /\ logEvent' = Event("fs", "changed")
    /\ UNCHANGED <<logCache, logWatchers, pollers, logCacheMutex, fg, poll,
                   calls, readFailures, notLogVars>>

\* the steps of getLogEntries after the call
FgStep ==
    \/ FgRLock
    \/ \E limit \in Limits, includeDebug \in BOOLEAN : FgReadCache(limit, includeDebug)
    \/ \E p \in Paths :
          \E scanned \in Scanned(files[p].lines), limit \in Limits, includeDebug \in BOOLEAN :
             fg.path = p /\ FgOpenParse(scanned, limit, includeDebug)
    \/ FgLock
    \/ FgWriteCache
    \/ \E limit \in Limits, includeDebug \in BOOLEAN :
          FgStartWatcherReturn(limit, includeDebug)

\* the steps of the poller of a path
PollStep(p) ==
    \/ PollTick(p)
    \/ \E scanned \in Scanned(files[p].lines) : PollOpenParse(p, scanned)
    \/ PollLock(p)
    \/ PollWriteCache(p)

InitLog ==
    /\ files = [p \in Paths |-> [exists |-> TRUE, lines |-> <<>>, mtime |-> 0]]
    /\ logCache = <<>>
    /\ logWatchers = <<>>
    /\ pollers = [p \in Paths |-> 0]
    /\ logCacheMutex = [writer |-> NoOne, readers |-> {}]
    /\ fg = Idle
    /\ poll = [p \in Paths |-> Waiting]
    /\ logEvent = Event(Main, "init")
    /\ changes = 0
    /\ calls = 0
    /\ readFailures = 0

NextLog ==
    \/ \E p \in Paths : GetLogEntriesCall(p)
    \/ FgStep
    \/ \E p \in Paths : PollStep(p)
    \/ \E p \in Paths, lines \in Contents : WriteFile(p, lines)
    \/ \E p \in Paths : RemoveFile(p)

----------------------------------------------------------------------------
(* parseLogFile on its own: the levels of the lines *)

\* a line that matches the patterns of two levels, and one that matches three
MixedLine == <<"error", "info">>

FailedLine == <<"warn", "debug", "fail">>

\* what the reader holds: one to MaxLines lines
MaxLines == 3

ScannedLines ==
    UNION {[1..n -> {ErrorLine, PlainLine, MixedLine, FailedLine}] : n \in 1..MaxLines}

NotParsed == [op |-> "init", lines |-> <<>>, entries |-> <<>>]

notParseVars == <<alertVars, sampleVars, free, logVars, callerVars, watch, ui>>

\* a call parseLogFile(reader, filePath, modTime) on a reader that holds
\* `lines`, with `entries` one of the lists it can return
ParseLogFile(lines, filePath, entries) ==
    /\ parseCall.op = "init"
    /\ entries \in parseLogFile(lines, filePath, 0)
    /\ parseCall' = [op |-> "parseLogFile", lines |-> lines, entries |-> entries]
    /\ UNCHANGED notParseVars

InitParse == parseCall = NotParsed

NextParse ==
    \E lines \in ScannedLines, filePath \in Paths :
        \E entries \in parseLogFile(lines, filePath, 0) :
            ParseLogFile(lines, filePath, entries)

----------------------------------------------------------------------------
(* GetNetworkUsage and getTrafficHistory under several callers              *)
(*                                                                          *)
(* A caller is a goroutine that calls GetNetworkUsage, on its own or as     *)
(* the first statement of GetNetworkTrafficInfoSections, which then calls   *)
(* getTrafficHistory for an interface when opts.CompactMode is false.       *)
(* Lock, the reading of the previous readings, the writing of the new ones  *)
(* and Unlock are separate steps of the caller.                             *)

\* calls made by the callers in one behaviour
MaxNetCalls == 3

Callers == {"g1", "g2"}

\* what readNetworkStats returns to a caller
CallerSnapshots ==
    {SteadyStats, [i \in Ifaces |-> MkReading(i, 1001000, 501000)]}

AtRest == [pc |-> "idle", sections |-> FALSE, stats |-> <<>>, t |-> 0,
           prev |-> <<>>, prevTime |-> 0]

notCallerVars ==
    <<alertVars, free, logVars, tempVars, netResult, pushedLog, netOp, netBurst,
      tempBurst, watch, ui, parseCall>>

\* current, with its rates against the previous reading the caller read
RatedAgainst(prev, stats, iface, elapsed) ==
    IF iface \in DOMAIN prev
    THEN [stats[iface] EXCEPT
            !.RxRate = RateMbps(stats[iface].BytesReceived,
                                prev[iface].BytesReceived, elapsed),
            !.TxRate = RateMbps(stats[iface].BytesSent,
                                prev[iface].BytesSent, elapsed)]
    ELSE stats[iface]

\* GetNetworkUsage() is called, by GetNetworkTrafficInfoSections if `sections`
NetCall(g, sections) ==
    /\ caller[g].pc = "idle"
    /\ netCalls < MaxNetCalls
    /\ netCalls' = netCalls + 1
    /\ caller' = [caller EXCEPT ![g] = [AtRest EXCEPT !.pc = "lock", !.sections = sections]]
    /\ histRead' = [who |-> g, what |-> "called"]
    /\ UNCHANGED <<networkTrafficMu, lastReadings, lastReadTime, trafficHistory, now,
                   notCallerVars>>

\* networkTrafficMu.Lock()
NetLock(g) ==
    /\ caller[g].pc = "lock"
    /\ networkTrafficMu = NoOne
    /\ networkTrafficMu' = g
    /\ caller' = [caller EXCEPT ![g].pc = "read"]
    /\ histRead' = [who |-> g, what |-> "locked"]
    /\ UNCHANGED <<netCalls, lastReadings, lastReadTime, trafficHistory, now,
                   notCallerVars>>

\* readNetworkStats(), time.Now(), and the reads of lastReadTime and of the
\* previous readings
NetReadPrevious(g, err, stats, dt) ==
    /\ caller[g].pc = "read"
    /\ now' = now + dt
    /\ IF err
       THEN caller' = [caller EXCEPT ![g].pc = "unlock"]
       ELSE caller' = [caller EXCEPT ![g].pc = "write", ![g].stats = stats,
                                     ![g].t = now + dt, ![g].prev = lastReadings,
                                     ![g].prevTime = lastReadTime]
    /\ histRead' = [who |-> g, what |-> IF err THEN "no stats" ELSE "read"]
    /\ UNCHANGED <<networkTrafficMu, netCalls, lastReadings, lastReadTime,
                   trafficHistory, notCallerVars>>

\* the updateTrafficHistory calls, lastReadings = networkStats and
\* lastReadTime = now
NetWrite(g) ==
    LET c == caller[g]
        elapsed == Elapsed(c.t, c.prevTime)
        known == DOMAIN c.stats \cap DOMAIN c.prev
        result == [i \in DOMAIN c.stats |-> RatedAgainst(c.prev, c.stats, i, elapsed)]
    IN /\ c.pc = "write"
       /\ trafficHistory' = UpdateAll(trafficHistory, known, result, c.t)
       /\ lastReadings' = StoredReadings(c.stats)
       /\ lastReadTime' = c.t
       /\ caller' = [caller EXCEPT ![g].pc = "unlock"]
       /\ histRead' = [who |-> g, what |-> "written"]
       /\ UNCHANGED <<networkTrafficMu, netCalls, now, notCallerVars>>

\* defer networkTrafficMu.Unlock(), and the return
NetUnlock(g) ==
    /\ caller[g].pc = "unlock"
    /\ networkTrafficMu' = NoOne
    /\ caller' = [caller EXCEPT ![g] = IF caller[g].sections
                                       THEN [AtRest EXCEPT !.pc = "history"]
                                       ELSE AtRest]
    /\ histRead' = [who |-> g, what |-> "unlocked"]
    /\ UNCHANGED <<netCalls, lastReadings, lastReadTime, trafficHistory, now,
                   notCallerVars>>

\* getTrafficHistory(ifaceName): history, ok := trafficHistory[ifaceName],
\* with no lock held
getTrafficHistory(g, ifaceName) ==
    /\ caller[g].pc = "history"
    /\ caller' = [caller EXCEPT ![g] = AtRest]
    /\ histRead' = [who |-> g, what |-> "history", iface |-> ifaceName,
                    history |-> IF ifaceName \in DOMAIN trafficHistory
                                THEN trafficHistory[ifaceName] ELSE <<>>,
                    holder |-> networkTrafficMu]
    /\ UNCHANGED <<networkTrafficMu, netCalls, lastReadings, lastReadTime,
                   trafficHistory, now, notCallerVars>>

InitCallers ==
    /\ networkTrafficMu = NoOne
    /\ caller = [g \in Callers |-> AtRest]
    /\ histRead = [who |-> NoOne, what |-> "init"]
    /\ netCalls = 0

NextCallers ==
    \/ \E g \in Callers, sections \in BOOLEAN : NetCall(g, sections)
    \/ \E g \in Callers : NetLock(g)
    \/ \E g \in Callers, stats \in CallerSnapshots, dt \in Intervals :
          NetReadPrevious(g, FALSE, stats, dt)
    \/ \E g \in Callers : NetReadPrevious(g, TRUE, <<>>, SteadyInterval)
    \/ \E g \in Callers : NetWrite(g)
    \/ \E g \in Callers : NetUnlock(g)
    \/ \E g \in Callers, i \in Ifaces : getTrafficHistory(g, i)

----------------------------------------------------------------------------
(* cmd/root.go: Execute, displayInfo, runWatchMode, collectDisplaySections  *)
(*                                                                          *)
(*  - The command is run with a choice among -cpu, -mem, -disk and -alerts, *)
(*    with or without -json, -watch and -refresh: the sections it gathers   *)
(*    are the ones that read the usage values and the alert store. The      *)
(*    alert manager is the one of the process, created by init().           *)
(*  - A step of the command is a call that returns or panics: ClearScreen,  *)
(*    the printing of the header, collectDisplaySections, CompactDisplay,   *)
(*    time.Sleep.                                                           *)
(*  - time.Duration is a signed word that counts ticks and wraps around:    *)
(*    DurationBits bits of milliseconds here, 64 bits of nanoseconds in the *)
(*    code, where the int of -refresh is 64 bits wide as well.              *)
(*  - A section is held by what it shows: a usage value, or the counts of   *)
(*    the alert summary.                                                    *)

\* width of time.Duration in the model, in bits
DurationBits == 14

\* time.Second, in ticks
Second == 1000

\* the longest interval, in seconds, whose Duration does not wrap
MaxSeconds == (2 ^ (DurationBits - 1) - 1) \div Second

\* the values given to -refresh
RefreshFlags == {-1, 0, 1, 2, MaxSeconds, MaxSeconds + 1}

\* the section flags of the command line
SectionFlags == {"cpu", "mem", "disk", "alerts"}

\* what GetTerminalWidth returns: the columns of the terminal, 80 if unknown
TerminalWidths == {38, 39, 80, 200}

\* 30 + 40 r + (10 r' - 5), with r and r' in [0, 1)
getCPUUsage == {250, 749}

\* UsagePerc: Alloc / Sys * 100 * (0.95 + 0.1 r)
collectMemoryInfo == {100, 800}

\* UsagePerc: 60 + (6 r - 3)
collectDiskInfo == {570, 629}

\* int64 multiplication
Duration(n) ==
    ((n + 2 ^ (DurationBits - 1)) % (2 ^ DurationBits)) - 2 ^ (DurationBits - 1)

\* time.Sleep(d): how long the caller is paused, at best
Slept(d) == IF d <= 0 THEN 0 ELSE d

\* refreshRate := *refreshRateFlag; if refreshRate < 1 { refreshRate = 1 }
RefreshRate(refreshRateFlag) == IF refreshRateFlag < 1 THEN 1 ELSE refreshRateFlag

\* allSections, by the name of the section
collectDisplaySections(flags, cpuUsage, memUsage, diskUsage) ==
    LET names == {"CPU" : f \in flags \cap {"cpu"}}
                   \cup {"Memory" : f \in flags \cap {"mem"}}
                   \cup {"Disk" : f \in flags \cap {"disk"}}
                   \cup {"Alert Summary" : f \in flags \cap {"alerts"}}
        summary == GetAlertsSummary
    IN  [name \in names |->
            CASE name = "CPU" -> <<cpuUsage>>
              [] name = "Memory" -> <<memUsage>>
              [] name = "Disk" -> <<diskUsage>>
              [] name = "Alert Summary" -> summary]

\* len(" whosay - Developer System Monitor ")
headerText == 35

\* the counts CompactDisplay hands to strings.Repeat for its header; the
\* quotient is clamped to 0 when negative, so that its rounding is immaterial
HeaderRepeats(termWidth) ==
    LET capped == IF termWidth > 120 THEN 120 ELSE termWidth
        headerWidth == capped - 4
        headerPadding == Max(0, (headerWidth - headerText) \div 2)
    IN  <<headerWidth, headerPadding, headerWidth - headerPadding - headerText>>

\* strings.Repeat panics on a negative count
Panics(termWidth) ==
    \E i \in 1..3 : HeaderRepeats(termWidth)[i] < 0

\* the values given to -container-logs: none, or the name of a container
ContainerNames == {"", "web"}

\* the command line as parsed, before Execute looks at it
NoArgs == [version |-> FALSE, containerLogs |-> "", json |-> FALSE, watch |-> FALSE]

BeforeExecute ==
    [pc |-> "start", mode |-> "none", json |-> FALSE, flags |-> {},
     refreshRateFlag |-> 1, refreshRate |-> 1, width |-> 0,
     sections |-> <<>>, frame |-> <<>>, sampled |-> <<>>, slept |-> <<>>,
     clock |-> 0, steps |-> <<>>, args |-> NoArgs, exit |-> <<>>]

notWatchVars == <<alertVars, sampleVars, free, logVars, callerVars, ui, parseCall>>

\* exit holds the exit status of the process once it has ended: 0 after
\* os.Exit(0) and after the return of Execute, 1 after os.Exit(1), 2 after a
\* panic
Execute(versionFlag, dockerLogsFlag, jsonFlag, watchFlag, refreshRateFlag, flags) ==
    /\ watch.pc = "start"
    /\ LET parsed == [watch EXCEPT !.args = [version |-> versionFlag,
                                             containerLogs |-> dockerLogsFlag,
                                             json |-> jsonFlag, watch |-> watchFlag]]
       IN watch' =
          IF versionFlag
          THEN [parsed EXCEPT !.pc = "exited", !.steps = <<"version">>,
                              !.exit = <<0>>]
          ELSE IF dockerLogsFlag # ""
          THEN [parsed EXCEPT !.pc = "returned", !.steps = <<"container-logs">>,
                              !.json = jsonFlag, !.exit = <<0>>]
          ELSE IF flags = {}
          THEN [parsed EXCEPT !.pc = "exited", !.steps = <<"usage">>,
                              !.exit = <<1>>]
          ELSE IF watchFlag /\ jsonFlag
          THEN [parsed EXCEPT !.pc = "exited", !.steps = <<"error">>,
                              !.exit = <<1>>, !.json = TRUE, !.flags = flags]
          ELSE [parsed EXCEPT !.pc = IF watchFlag THEN "clear" ELSE "displayInfo",
                              !.mode = IF watchFlag THEN "watch" ELSE "once",
                              !.json = jsonFlag, !.flags = flags,
                              !.refreshRateFlag = refreshRateFlag,
                              !.refreshRate = RefreshRate(refreshRateFlag)]
    /\ UNCHANGED notWatchVars

\* what the sections were built from
Sampled(flags, cpuUsage, memUsage, diskUsage) ==
    [f \in flags \ {"alerts"} |->
        CASE f = "cpu" -> cpuUsage
          [] f = "mem" -> memUsage
          [] f = "disk" -> diskUsage]

displayInfo(cpuUsage, memUsage, diskUsage, termWidth) ==
    /\ watch.pc = "displayInfo"
    /\ watch' =
          IF watch.json
          THEN [watch EXCEPT !.pc = "returned", !.steps = <<"json">>,
                   !.exit = <<0>>,
                   !.sampled = Sampled(watch.flags, cpuUsage, memUsage, diskUsage)]
          ELSE LET sections == collectDisplaySections(watch.flags, cpuUsage,
                                                      memUsage, diskUsage)
                   gathered == [watch EXCEPT
                       !.sections = sections,
                       !.sampled = Sampled(watch.flags, cpuUsage, memUsage,
                                           diskUsage),
                       !.clock = alertClock]
               IN  IF Panics(termWidth)
                   THEN [gathered EXCEPT !.pc = "panicked", !.steps = <<"gather">>,
                            !.exit = <<2>>]
                   ELSE [gathered EXCEPT !.pc = "returned", !.frame = sections,
                            !.exit = <<0>>,
                            !.steps = <<"gather", "render", "footer">>]
    /\ UNCHANGED notWatchVars

\* ui.ClearScreen(): the error of the clear command is dropped
ClearScreen ==
    /\ watch.pc = "clear"
    /\ watch' = [watch EXCEPT !.pc = "header", !.steps = <<"clear">>,
                              !.sections = <<>>, !.frame = <<>>, !.sampled = <<>>,
                              !.width = 0, !.clock = alertClock]
    /\ UNCHANGED notWatchVars

\* width := ui.GetTerminalWidth(); if width > 120 { width = 120 }; the header
PrintHeader(termWidth) ==
    /\ watch.pc = "header"
    /\ watch' = [watch EXCEPT !.pc = "gather",
                              !.width = IF termWidth > 120 THEN 120 ELSE termWidth,
                              !.steps = Append(@, "header")]
    /\ UNCHANGED notWatchVars

\* sections := collectDisplaySections(watchOpts, ...)
CollectSections(cpuUsage, memUsage, diskUsage) ==
    /\ watch.pc = "gather"
    /\ watch' = [watch EXCEPT
                    !.pc = "render",
                    !.sections = collectDisplaySections(watch.flags, cpuUsage,
                                                        memUsage, diskUsage),
                    !.sampled = Sampled(watch.flags, cpuUsage, memUsage, diskUsage),
                    !.steps = Append(@, "gather")]
    /\ UNCHANGED notWatchVars

\* ui.CompactDisplay(sections)
CompactDisplay(termWidth) ==
    /\ watch.pc = "render"
    /\ watch' = IF Panics(termWidth)
                THEN [watch EXCEPT !.pc = "panicked", !.exit = <<2>>]
                ELSE [watch EXCEPT !.pc = "sleep", !.frame = watch.sections,
                                   !.steps = Append(@, "render")]
    /\ UNCHANGED notWatchVars

\* time.Sleep(time.Duration(refreshRate) * time.Second)
Sleep ==
    /\ watch.pc = "sleep"
    /\ watch' = [watch EXCEPT
                    !.pc = "clear",
                    !.slept = <<Slept(Duration(watch.refreshRate * Second))>>,
                    !.steps = Append(@, "sleep")]
    /\ UNCHANGED notWatchVars

runWatchMode ==
    \/ ClearScreen
    \/ \E termWidth \in TerminalWidths : PrintHeader(termWidth)
    \/ \E cpuUsage \in getCPUUsage, memUsage \in collectMemoryInfo,
          diskUsage \in collectDiskInfo :
          CollectSections(cpuUsage, memUsage, diskUsage)
    \/ \E termWidth \in TerminalWidths : CompactDisplay(termWidth)
    \/ Sleep

InitWatch == watch = BeforeExecute

NextWatch ==
    \/ \E versionFlag \in BOOLEAN, dockerLogsFlag \in ContainerNames,
          jsonFlag \in BOOLEAN, watchFlag \in BOOLEAN,
          refreshRateFlag \in RefreshFlags, flags \in SUBSET SectionFlags :
          Execute(versionFlag, dockerLogsFlag, jsonFlag, watchFlag,
                  refreshRateFlag, flags)
    \/ \E cpuUsage \in getCPUUsage, memUsage \in collectMemoryInfo,
          diskUsage \in collectDiskInfo, termWidth \in TerminalWidths :
          displayInfo(cpuUsage, memUsage, diskUsage, termWidth)
    \/ runWatchMode

----------------------------------------------------------------------------
(* internal/ui: the order of the sections, the process table, the colours   *)
(*                                                                          *)
(*  - The functions of the package keep no state. A behaviour is one call  *)
(*    of one of them with arguments drawn from small sets; ui holds the     *)
(*    call and its result.                                                  *)
(*  - A Go string comparison (a < b) is the order of the bytes; the section *)
(*    names of the model are listed in that order in Lexicographic.         *)
(*  - Ranging over a Go map visits the keys in an order that the run time   *)
(*    chooses anew every time: a function that does so is the set of the    *)
(*    results it can return.                                                *)

\* the section names given to the functions, in the order of their bytes
Lexicographic ==
    <<"Alert Summary", "Battery", "CPU", "Memory", "Network Traffic", "System",
      "Temperature">>

SectionNames == {Lexicographic[i] : i \in 1..Len(Lexicographic)}

\* a < b for two section names
StringLess(a, b) ==
    \E i, j \in 1..Len(Lexicographic) :
        Lexicographic[i] = a /\ Lexicographic[j] = b /\ i < j

\* components.go: priorityOrder
priorityOrder ==
    <<"System", "CPU", "Memory", "Disk", "Network", "Runtime Environment",
      "Runtime", "Top Processes", "Processes", "Docker", "Containers">>

\* the other display code: sectionOrder, by rank
sectionOrder ==
    <<"System", "Runtime Environment", "CPU", "Memory", "Disk", "Network",
      "Network Traffic", "Top Processes", "Processes", "Docker", "Containers",
      "Battery", "Temperature", "System Logs", "Resource History">>

Range(seq) == {seq[i] : i \in 1..Len(seq)}

\* the orders in which a range over a map with these keys can visit them
MapOrders(keys) ==
    {order \in [1..Cardinality(keys) -> keys] :
        \A i, j \in 1..Cardinality(keys) : i # j => order[i] # order[j]}

\* for _, name := range priorityOrder { if exists { append } }
PresentInOrder(list, names) == SelectSeq(list, LAMBDA name : name \in names)

\* GetSortedSectionNames: the priority sections, then the remaining ones as
\* the range over the map delivers them
GetSortedSectionNames(names) ==
    LET first == PresentInOrder(priorityOrder, names)
    IN  {first \o rest : rest \in MapOrders(names \ Range(first))}

\* the less function handed to sort.Slice
SectionLess(a, b) ==
    LET existsA == a \in Range(sectionOrder)
        existsB == b \in Range(sectionOrder)
        order(n) == CHOOSE i \in 1..Len(sectionOrder) : sectionOrder[i] = n
    IN  IF ~existsA /\ ~existsB THEN StringLess(a, b)
        ELSE IF ~existsA THEN FALSE
        ELSE IF ~existsB THEN TRUE
        ELSE order(a) < order(b)

\* sort.Slice(names, less): the names are distinct and less orders them
\* totally, so that the order the map delivered them in does not show
RECURSIVE SortSlice(_)
SortSlice(names) ==
    IF names = {} THEN <<>>
    ELSE LET least == CHOOSE a \in names : \A b \in names \ {a} : SectionLess(a, b)
         IN  <<least>> \o SortSlice(names \ {least})

getSortedSectionNames(names) == {SortSlice(names)}

\* the cells of a process table: len(col) is the number of their bytes
Cells == {"PID", "12345", "1234567890", "/usr/lib/firefox/bin"}

\* the cells of its header
HeaderCells == {"PID", "1234567890"}

\* the process tables handed to RenderProcessTable: a header and a row
Tables ==
    {<<header, row>> : header \in HeaderCells \X HeaderCells \X HeaderCells,
                       row \in Cells \X Cells \X Cells}

\* the widths handed to RenderProcessTable: CompactDisplay passes the
\* terminal width less 4
TableWidths == {-3, 20, 28, 30, 48, 60}

\* if len(col) > colWidths[i] { colWidths[i] = len(col) }, over the rows up to row n
RECURSIVE LongestCells(_, _)
LongestCells(processes, n) ==
    IF n = 0 THEN [i \in 1..Len(processes[1]) |-> 0]
    ELSE LET colWidths == LongestCells(processes, n - 1)
         IN  [i \in 1..Len(colWidths) |->
                 IF i <= Len(processes[n]) /\ Len(processes[n][i]) > colWidths[i]
                 THEN Len(processes[n][i]) ELSE colWidths[i]]

\* totalWidth := 4; for ... { totalWidth += colWidth + 3 }, over the columns up to n
RECURSIVE TotalWidth(_, _)
TotalWidth(colWidths, n) ==
    IF n = 0 THEN 4 ELSE TotalWidth(colWidths, n - 1) + colWidths[n] + 3

\* a reduction that rounds up
ReductionRoundedUp(colWidth, excess, totalWidth) ==
    (colWidth * excess + totalWidth - 1) \div totalWidth

\* reduction := (colWidths[i] * excess) / totalWidth: the operands are not
\* negative, so the quotient of Go is the floor
Reduction(colWidth, excess, totalWidth) == (colWidth * excess) \div totalWidth

\* the column widths after the adjustment
AdjustedWidths(colWidths, width) ==
    LET totalWidth == TotalWidth(colWidths, Len(colWidths))
        excess == totalWidth - width
    IN  IF totalWidth > width
        THEN [i \in 1..Len(colWidths) |->
                 LET reduced == colWidths[i] - Reduction(colWidths[i], excess, totalWidth)
                 IN  IF reduced < 5 THEN 5 ELSE reduced]
        ELSE colWidths

\* the colours of colors.go
SuccessColor == "green"

WarningColor == "yellow"

DangerColor == "red"

ValueColor == "white"

\* usage percentages, in tenths of a percent, around the limits of the colours
Percentages == {0, 599, 600, 799, 800, 849, 850, 1000}

\* widths given to the compact bar
BarWidths == {-3, 14, 29}

\* the keys of the rows; those of UsageKeys contain "Usage"
Keys == {"Usage", "Disk Usage", "Status", "Charge"}

UsageKeys == {"Usage", "Disk Usage"}

\* a value of a row: its text, the number that Sscanf("%f") reads at the start
\* of its first word (in tenths, none if the word does not start with a
\* number), and whether the text contains "%". A percentage p formatted with
\* "%.1f%%" has the number p and the sign.
FormattedPercent(p) == [text |-> "%.1f%%", first |-> <<p>>, sign |-> TRUE]

StatusValues == {"Up", "Running", "Active", "Down", "Stopped", "Idle"}

Values ==
    {FormattedPercent(p) : p \in Percentages}
        \cup {[text |-> t, first |-> <<>>, sign |-> FALSE] : t \in StatusValues}
        \cup {[text |-> "n/a %", first |-> <<>>, sign |-> TRUE],
              [text |-> "512 MB (82.0%)", first |-> <<5120>>, sign |-> TRUE]}

\* rows of a section, of one cell and of two
Rows == {<<"Usage">>, <<"Usage", "42.0%">>}

\* the row lists of a section: up to MaxRows rows
MaxRows == 2

RowLists == UNION {[1..n -> Rows] : n \in 0..MaxRows}

\* the sections maps handed to CompactDisplay
SectionMaps ==
    UNION {[names -> RowLists] : names \in SUBSET {"CPU", "Top Processes"}}

\* RenderProcessTable indexes processes[0], and colWidths, which is as long
\* as the first row, by the cells of every row
TableFaults(processes) ==
    \/ processes = <<>>
    \/ \E r \in 1..Len(processes) : Len(processes[r]) > Len(processes[1])

\* the run-time fault that ends CompactDisplay, "" if it returns: the header
\* is drawn first, then the sections, whose rows are read as pair[0], pair[1]
CompactDisplayFault(termWidth, sections) ==
    IF Panics(termWidth) THEN "strings: negative Repeat count"
    ELSE IF \E name \in DOMAIN sections :
                IF name = "Top Processes"
                THEN TableFaults(sections[name])
                ELSE \E r \in 1..Len(sections[name]) : Len(sections[name][r]) < 2
    THEN "index out of range"
    ELSE ""

\* no call made: the arguments and results of the functions, not yet set
NoCall ==
    [op |-> "init", names |-> {}, order |-> <<>>, processes |-> <<>>, width |-> 0,
     natural |-> <<>>, totalWidth |-> 0, colWidths |-> <<>>,
     percentage |-> 0, key |-> "", value |-> "", filledWidth |-> 0,
     colorFunc |-> "", sections |-> <<>>, fault |-> ""]

notUIVars == <<alertVars, sampleVars, free, logVars, callerVars, watch, parseCall>>

\* a call of GetSortedSectionNames, by CompactDisplay of components.go
SortSections(names, result) ==
    /\ ui.op = "init"
    /\ result \in GetSortedSectionNames(names)
    /\ ui' = [NoCall EXCEPT !.op = "GetSortedSectionNames", !.names = names,
                            !.order = result]
    /\ UNCHANGED notUIVars

\* a call of getSortedSectionNames, by the other CompactDisplay
SortSectionsBySlice(names, result) ==
    /\ ui.op = "init"
    /\ result \in getSortedSectionNames(names)
    /\ ui' = [NoCall EXCEPT !.op = "getSortedSectionNames", !.names = names,
                            !.order = result]
    /\ UNCHANGED notUIVars

\* a call of RenderProcessTable, up to the rendering of the rows; ui holds
\* the widths before and after the adjustment
RenderProcessTable(processes, width) ==
    /\ ui.op = "init"
    /\ LET colWidths == LongestCells(processes, Len(processes))
       IN  ui' = [NoCall EXCEPT
                     !.op = "RenderProcessTable",
                     !.processes = processes,
                     !.width = width,
                     !.natural = colWidths,
                     !.totalWidth = TotalWidth(colWidths, Len(colWidths)),
                     !.colWidths = AdjustedWidths(colWidths, width)]
    /\ UNCHANGED notUIVars

\* a call of PrintUsageBar: the colour of the percentage it prints
PrintUsageBar(percentage) ==
    /\ ui.op = "init"
    /\ ui' = [NoCall EXCEPT
                  !.op = "PrintUsageBar",
                  !.percentage = percentage,
                  !.colorFunc = IF percentage < 60 * 10 THEN SuccessColor
                                ELSE IF percentage < 80 * 10 THEN WarningColor
                                ELSE DangerColor]
    /\ UNCHANGED notUIVars

\* a call of PrintCompactUsageBar: the colour and the filled part of the bar
PrintCompactUsageBar(percentage, width) ==
    /\ ui.op = "init"
    /\ LET barWidth == IF width - 9 < 5 THEN 5 ELSE width - 9
           bounded == IF percentage < 0 THEN 0
                      ELSE IF percentage > 100 * 10 THEN 100 * 10
                      ELSE percentage
           filledWidth == (barWidth * bounded) \div (100 * 10)
       IN  ui' = [NoCall EXCEPT
                     !.op = "PrintCompactUsageBar",
                     !.percentage = percentage,
                     !.width = width,
                     !.filledWidth = IF filledWidth > barWidth THEN barWidth
                                     ELSE filledWidth,
                     !.colorFunc = IF percentage < 60 * 10 THEN SuccessColor
                                   ELSE IF percentage < 85 * 10 THEN WarningColor
                                   ELSE DangerColor]
    /\ UNCHANGED notUIVars

\* a call of FormatValueWithContext: the colour given to the value of a row
FormatValueWithContext(key, value) ==
    /\ ui.op = "init"
    /\ LET percent == IF value.first = <<>> THEN 0 ELSE value.first[1]
       IN  ui' = [NoCall EXCEPT
                     !.op = "FormatValueWithContext",
                     !.key = key,
                     !.value = value.text,
                     !.percentage = percent,
                     !.colorFunc =
                         IF key \in UsageKeys /\ value.sign
                         THEN IF percent < 60 * 10 THEN SuccessColor
                              ELSE IF percent < 85 * 10 THEN WarningColor
                              ELSE DangerColor
                         ELSE IF key = "Status"
                                  /\ value.text \in {"Up", "Running", "Active"}
                         THEN SuccessColor
                         ELSE IF key = "Status" /\ value.text \in {"Down", "Stopped"}
                         THEN DangerColor
                         ELSE ValueColor]
    /\ UNCHANGED notUIVars

\* a call of CompactDisplay(sections) on a terminal of termWidth columns
CompactDisplayOf(termWidth, sections) ==
    /\ ui.op = "init"
    /\ ui' = [NoCall EXCEPT
                  !.op = "CompactDisplay",
                  !.width = termWidth,
                  !.sections = sections,
                  !.fault = CompactDisplayFault(termWidth, sections)]
    /\ UNCHANGED notUIVars

InitUI == ui = NoCall

NextUI ==
    \/ \E names \in SUBSET SectionNames :
          \E result \in GetSortedSectionNames(names) : SortSections(names, result)
    \/ \E names \in SUBSET SectionNames :
          \E result \in getSortedSectionNames(names) :
              SortSectionsBySlice(names, result)
    \/ \E processes \in Tables, width \in TableWidths :
          RenderProcessTable(processes, width)
    \/ \E percentage \in Percentages : PrintUsageBar(percentage)
    \/ \E percentage \in Percentages, width \in BarWidths :
          PrintCompactUsageBar(percentage, width)
    \/ \E key \in Keys, value \in Values : FormatValueWithContext(key, value)
    \/ \E termWidth \in TerminalWidths, sections \in SectionMaps :
          CompactDisplayOf(termWidth, sections)

----------------------------------------------------------------------------
(* The alert manager under its callers *)

InitAlerts ==
    /\ Alerts = <<>>
    /\ Thresholds = DefaultThresholds
    /\ alertClock = 0
    /\ addedLog = <<>>
    /\ lastOp = [op |-> "NewAlertManager", arg |-> <<>>, clockBefore |-> 0, lenBefore |-> 0,
                 activeBefore |-> {}]
    /\ burst = 0

\* The sustained load comes first; freely chosen calls follow it, and start on
\* an empty store or on a store one short of MaxAlerts.
FreeStarts == {0, MaxAlerts - 1}

FreeCall ==
    /\ free < MaxOps
    /\ free > 0 \/ burst \in FreeStarts
    /\ free' = free + 1
    /\ UNCHANGED <<burst, sampleVars, laterVars>>

Sustained ==
    /\ free = 0
    /\ burst < MaxBurst
    /\ burst' = burst + 1
    /\ UNCHANGED <<free, sampleVars, laterVars>>
    /\ CheckCPU(SustainedUsage)

Next ==
    \/ Sustained
    \/ \E u \in CPUUsages : FreeCall /\ CheckCPU(u)
    \/ \E u \in MemoryUsages : FreeCall /\ CheckMemory(u)
    \/ \E u \in DiskUsages : FreeCall /\ CheckDisk(u)
    \/ \E l \in Levels : FreeCall /\ AddAlertCall(l)
    \/ \E i \in AckIndexes : FreeCall /\ AcknowledgeAlert(i)
    \/ FreeCall /\ AcknowledgeAllAlerts
    \/ \E t \in ThresholdInputs :
          FreeCall /\ ConfigureAlertThresholds(t[1], t[2], t[3], t[4], t[5], t[6])

Init ==
    /\ InitAlerts
    /\ InitSamplers
    /\ free = 0
    /\ InitLog
    /\ InitCallers
    /\ InitWatch
    /\ InitUI
    /\ InitParse

Spec == Init /\ [][Next]_vars

SpecNet == Init /\ [][NextNet]_vars

SpecLog == Init /\ [][NextLog]_vars

SpecCallers == Init /\ [][NextCallers]_vars

SpecUI == Init /\ [][NextUI]_vars

SpecParse == Init /\ [][NextParse]_vars

\* The command is one goroutine that runs on: a step that can be taken is
\* taken, since every call of the loop returns or panics.
SpecWatch == Init /\ [][NextWatch]_vars /\ WF_vars(NextWatch)

\* the ticker of a poller fires every five seconds and nothing stops the
\* goroutine; a Lock of sync.RWMutex that waits keeps later readers out, so it
\* returns once the lock has been free often enough; a getLogEntries call that
\* has started runs to its return; and the loop of the watch mode calls
\* getLogEntries for the path in every cycle
SpecLogFair ==
    /\ Init
    /\ [][NextLog]_vars
    /\ \A p \in Paths : WF_vars(PollStep(p))
    /\ \A p \in Paths : SF_vars(PollLock(p))
    /\ WF_vars(FgStep)
    /\ SF_vars(FgLock)
    /\ \A p \in Paths : WF_vars(GetLogEntriesCall(p))

----------------------------------------------------------------------------
(* The alert store *)

\* an alert as it was added, whatever its acknowledgement is now
AsAdded(alert) == [alert EXCEPT !.Acknowledged = FALSE]

\* C2: after n AddAlert calls the store has length min(n, MaxAlerts) and holds
\* the most recently added alerts, newest first: index 0 is the latest added.
C2_StoreIsNewestFirstCapped ==
    /\ Len(addedLog) = alertClock
    /\ Len(Alerts) = Min(alertClock, MaxAlerts)
    /\ \A i \in 1..Len(Alerts) : AsAdded(Alerts[i]) = addedLog[alertClock - i + 1]

\* 105 sequential adds: length 100, the 5 oldest gone, the 6th at the tail
C2_Witness ==
    /\ alertClock = MaxAlerts + 5
    /\ burst = MaxAlerts + 5
    /\ Len(Alerts) = MaxAlerts
    /\ Alerts[MaxAlerts].Time = 6
    /\ Alerts[1].Time = MaxAlerts + 5

IsCheck == lastOp.op \in {"CheckCPU", "CheckMemory", "CheckDisk"}

\* the thresholds the last Check* call compared with
CheckedWarning ==
    IF lastOp.op = "CheckCPU" THEN Thresholds.CPUWarning
    ELSE IF lastOp.op = "CheckMemory" THEN Thresholds.MemoryWarning
    ELSE Thresholds.DiskWarning

CheckedCritical ==
    IF lastOp.op = "CheckCPU" THEN Thresholds.CPUCritical
    ELSE IF lastOp.op = "CheckMemory" THEN Thresholds.MemoryCritical
    ELSE Thresholds.DiskCritical

CheckedResource ==
    IF lastOp.op = "CheckCPU" THEN "CPU"
    ELSE IF lastOp.op = "CheckMemory" THEN "Memory"
    ELSE "Disk"

\* the last call added exactly one alert of this level for this reading
AddedOne(level, value, threshold) ==
    /\ alertClock = lastOp.clockBefore + 1
    /\ Len(Alerts) = Min(lastOp.lenBefore + 1, MaxAlerts)
    /\ Alerts[1].Level = level
    /\ Alerts[1].Resource = CheckedResource
    /\ Alerts[1].Value = value
    /\ Alerts[1].Threshold = threshold
    /\ Alerts[1].Time = alertClock
    /\ ~Alerts[1].Acknowledged

AddedNone ==
    /\ alertClock = lastOp.clockBefore
    /\ Len(Alerts) = lastOp.lenBefore

\* C3: a Check* call adds exactly one Critical alert when value >= critical,
\* exactly one Warning alert when warning <= value < critical, and none
\* otherwise, whatever was evaluated or stored before.
C3_CheckAddsByThresholdOnly ==
    IsCheck =>
        LET v == lastOp.arg
        IN /\ v >= CheckedCritical => AddedOne(Critical, v, CheckedCritical)
           /\ (CheckedWarning <= v /\ v < CheckedCritical) =>
                 AddedOne(Warning, v, CheckedWarning)
           /\ (v < CheckedWarning /\ v < CheckedCritical) => AddedNone

\* CPU held at 80.0 with thresholds 75/90: a second Warning on the second call
C3_Witness ==
    /\ lastOp.op = "CheckCPU"
    /\ lastOp.arg = 800
    /\ Thresholds.CPUWarning = 750
    /\ Thresholds.CPUCritical = 900
    /\ Len(Alerts) >= 2
    /\ Alerts[1].Level = Warning /\ Alerts[1].Value = 800
    /\ Alerts[2].Level = Warning /\ Alerts[2].Value = 800 /\ Alerts[2].Resource = "CPU"

WarningBelowCritical ==
    /\ Thresholds.CPUWarning < Thresholds.CPUCritical
    /\ Thresholds.MemoryWarning < Thresholds.MemoryCritical
    /\ Thresholds.DiskWarning < Thresholds.DiskCritical

\* the warning ConfigureAlertThresholds is to store for the pair it was given
Corrected(warn, crit) == IF warn >= crit THEN crit - 100 ELSE warn

\* C4: after ConfigureAlertThresholds warning < critical holds for CPU, memory
\* and disk; a warning >= its critical is stored as critical - 10, every other
\* value as given; exactly one Info alert is added.
C4_ConfigureValidatesThresholds ==
    /\ WarningBelowCritical
    /\ lastOp.op = "ConfigureAlertThresholds" =>
          LET a == lastOp.arg
          IN /\ Thresholds.CPUCritical = a[2]
             /\ Thresholds.MemoryCritical = a[4]
             /\ Thresholds.DiskCritical = a[6]
             /\ Thresholds.CPUWarning = Corrected(a[1], a[2])
             /\ Thresholds.MemoryWarning = Corrected(a[3], a[4])
             /\ Thresholds.DiskWarning = Corrected(a[5], a[6])
             /\ alertClock = lastOp.clockBefore + 1
             /\ Len(Alerts) = Min(lastOp.lenBefore + 1, MaxAlerts)
             /\ Alerts[1].Level = Info
             /\ Alerts[1].Title = <<"Alert Thresholds Updated">>
             /\ Alerts[1].Time = alertClock

\* CPUWarning = 95, CPUCritical = 90 gives CPUWarning = 80
C4_Witness ==
    /\ lastOp.op = "ConfigureAlertThresholds"
    /\ lastOp.arg[1] = 950 /\ lastOp.arg[2] = 900
    /\ Thresholds.CPUWarning = 800 /\ Thresholds.CPUCritical = 900
    /\ Thresholds.MemoryWarning = 800

\* the alerts of a store, named by their Time, that are (not) acknowledged
AcknowledgedTimes(store) ==
    {store[i].Time : i \in {k \in 1..Len(store) : store[k].Acknowledged}}

ActiveTimes(store) ==
    {store[i].Time : i \in {k \in 1..Len(store) : ~store[k].Acknowledged}}

\* C8: an acknowledged alert stays acknowledged for as long as it is stored:
\* no step takes a stored alert from acknowledged to not acknowledged.
C8_AcknowledgedStaysAcknowledged ==
    [][AcknowledgedTimes(Alerts) \cap ActiveTimes(Alerts') = {}]_vars

\* an alert acknowledged by AcknowledgeAlert, still acknowledged after a later
\* alert was added in front of it and the threshold update after that
C8_Witness ==
    /\ lastOp.op = "ConfigureAlertThresholds"
    /\ Len(Alerts) >= 3
    /\ Alerts[3].Acknowledged
    /\ ~Alerts[2].Acknowledged
    /\ ~Alerts[1].Acknowledged

\* C9: AcknowledgeAllAlerts acknowledges every alert that was stored when it
\* was called, then adds one new Info alert at the front of the store.
C9_AcknowledgeAllThenOneInfo ==
    lastOp.op = "AcknowledgeAllAlerts" =>
        /\ alertClock = lastOp.clockBefore + 1
        /\ Len(Alerts) = Min(lastOp.lenBefore + 1, MaxAlerts)
        /\ Alerts[1] = [addedLog[alertClock] EXCEPT !.Acknowledged = FALSE]
        /\ Alerts[1].Level = Info
        /\ Alerts[1].Title = <<"Alerts Acknowledged">>
        /\ Alerts[1].Time = alertClock
        /\ \A i \in 2..Len(Alerts) :
              /\ Alerts[i].Time = lastOp.clockBefore - (i - 2)
              /\ Alerts[i] = [addedLog[Alerts[i].Time] EXCEPT !.Acknowledged = TRUE]

\* AcknowledgeAllAlerts on a full store
C9_Witness ==
    /\ lastOp.op = "AcknowledgeAllAlerts"
    /\ lastOp.lenBefore = MaxAlerts
    /\ Len(Alerts) = MaxAlerts
    /\ Alerts[MaxAlerts].Acknowledged

\* C10 as stated: straight after AcknowledgeAllAlerts, GetActiveAlerts is empty.
C10_ActiveEmptyAfterAcknowledgeAll ==
    lastOp.op = "AcknowledgeAllAlerts" => GetActiveAlerts = <<>>

\* C10, amended: straight after AcknowledgeAllAlerts, GetActiveAlerts holds
\* exactly the Info alert the call itself added, and none stored before it.
C10_ActiveIsOnlyTheNewInfo ==
    lastOp.op = "AcknowledgeAllAlerts" =>
        /\ Len(GetActiveAlerts) = 1
        /\ GetActiveAlerts[1] = Alerts[1]
        /\ GetActiveAlerts[1].Level = Info
        /\ GetActiveAlerts[1].Title = <<"Alerts Acknowledged">>
        /\ GetActiveAlerts[1].Time = lastOp.clockBefore + 1

\* AcknowledgeAllAlerts called on a store holding two active alerts
C10_Witness ==
    /\ lastOp.op = "AcknowledgeAllAlerts"
    /\ lastOp.lenBefore = 2
    /\ free = 3
    /\ Len(GetActiveAlerts) = 1

\* a step that is AcknowledgeAllAlerts called straight after AcknowledgeAllAlerts
AcknowledgedAllTwice ==
    /\ lastOp.op = "AcknowledgeAllAlerts"
    /\ lastOp'.op = "AcknowledgeAllAlerts"
    /\ alertClock' = alertClock + 1

\* C11 as stated: AcknowledgeAllAlerts called twice in a row leaves the store
\* (its length, its alerts, their flags) as one call left it.
C11_SecondCallChangesNothing ==
    [][AcknowledgedAllTwice => Alerts' = Alerts]_vars

\* C11, amended: the second of two AcknowledgeAllAlerts calls in a row leaves
\* every alert the first call left in place, in order and acknowledged; its
\* only changes are one more active Info alert at the front, the first call's
\* Info alert now acknowledged, and the oldest alert dropped from a full store.
C11_SecondCallOnlyAddsInfo ==
    [][AcknowledgedAllTwice =>
          /\ Len(Alerts') = Min(Len(Alerts) + 1, MaxAlerts)
          /\ Alerts'[1].Level = Info
          /\ Alerts'[1].Title = <<"Alerts Acknowledged">>
          /\ ~Alerts'[1].Acknowledged
          /\ Alerts'[2] = [Alerts[1] EXCEPT !.Acknowledged = TRUE]
          /\ \A i \in 3..Len(Alerts') : Alerts'[i] = Alerts[i - 1]]_vars

\* the state after two AcknowledgeAllAlerts calls in a row on a store of one alert
C11_Witness ==
    /\ lastOp.op = "AcknowledgeAllAlerts"
    /\ lastOp.lenBefore = 2
    /\ Len(Alerts) = 3
    /\ Alerts[2].Title = <<"Alerts Acknowledged">>
    /\ Alerts[2].Time = alertClock - 1
    /\ Alerts[2].Acknowledged
    /\ Alerts[3].Acknowledged
    /\ ~Alerts[1].Acknowledged

\* the indexes of the stored alerts of a level that are not acknowledged
ActiveOfLevel(store, level) ==
    {i \in 1..Len(store) : store[i].Level = level /\ ~store[i].Acknowledged}

\* C12: GetAlertsSummary counts, per level, the stored alerts of that level
\* that are not acknowledged, and the counts add up to len(GetActiveAlerts());
\* AcknowledgeAlert takes the alert out of GetActiveAlerts, and so out of the
\* counts, and leaves it in the store, whose length it does not change.
C12_SummaryCountsActiveAlerts ==
    LET summary == GetAlertsSummary
        index == lastOp.arg
    IN /\ summary[1] = Cardinality(ActiveOfLevel(Alerts, Info))
       /\ summary[2] = Cardinality(ActiveOfLevel(Alerts, Warning))
       /\ summary[3] = Cardinality(ActiveOfLevel(Alerts, Critical))
       /\ summary[1] + summary[2] + summary[3] = Len(GetActiveAlerts)
       /\ lastOp.op = "AcknowledgeAlert" =>
             /\ Len(Alerts) = lastOp.lenBefore
             /\ IF index >= 0 /\ index < Len(Alerts)
                THEN /\ Alerts[index + 1].Acknowledged
                     /\ ActiveTimes(Alerts) = lastOp.activeBefore \ {Alerts[index + 1].Time}
                     /\ \A k \in 1..Len(GetActiveAlerts) :
                           GetActiveAlerts[k].Time # Alerts[index + 1].Time
                ELSE ActiveTimes(Alerts) = lastOp.activeBefore

\* AcknowledgeAlert on the older of two active alerts: the Warning is taken
\* out of the counts, the Critical stays
C12_Witness ==
    /\ lastOp.op = "AcknowledgeAlert"
    /\ lastOp.arg = 1
    /\ Len(Alerts) = 2
    /\ Alerts[2].Acknowledged
    /\ Alerts[2].Level = Warning
    /\ GetAlertsSummary = <<0, 0, 1>>
    /\ Len(GetActiveAlerts) = 1
    /\ Cardinality(lastOp.activeBefore) = 2

----------------------------------------------------------------------------
(* The histories *)

\* the last Min(Len(log), cap) elements of log
LastOf(log, cap) == SubSeq(log, Len(log) - Min(Len(log), cap) + 1, Len(log))

\* C1: every history holds at most C entries and equals the most recent
\* min(n, C) samples pushed for its key, oldest first: C = 60 for the traffic
\* history of an interface, C = 1440 for the temperature history.
C1_HistoryIsLastPushed ==
    /\ \A i \in DOMAIN trafficHistory :
          /\ Len(trafficHistory[i]) <= historyLength
          /\ trafficHistory[i] = LastOf(pushedLog[i], historyLength)
    /\ \A i \in Ifaces \ DOMAIN trafficHistory : pushedLog[i] = <<>>
    /\ Len(temperatureHistory) <= TemperatureHistoryLength
    /\ temperatureHistory = LastOf(tempLog, TemperatureHistoryLength)

\* 61 samples pushed for eth0 and 1441 temperature records stored: each
\* history is full and starts with the second sample pushed
C1_Witness ==
    /\ Len(pushedLog["eth0"]) = historyLength + 1
    /\ Len(trafficHistory["eth0"]) = historyLength
    /\ trafficHistory["eth0"][1] = pushedLog["eth0"][2]
    /\ trafficHistory["eth0"][1] # pushedLog["eth0"][1]
    /\ Len(tempLog) = TemperatureHistoryLength + 1
    /\ Len(temperatureHistory) = TemperatureHistoryLength
    /\ temperatureHistory[1] = tempLog[2]
    /\ temperatureHistory[1] # tempLog[1]

----------------------------------------------------------------------------
(* The rates *)

Succeeded == netOp.op = "GetNetworkUsage" /\ ~netOp.err

\* the interfaces of the last call that had a previous reading
WithPrevious == DOMAIN netOp.stats \cap DOMAIN netOp.prev

\* the elapsed time the last call is to divide by: max(elapsed, 0.1 s)
ElapsedOfCall == Max(now - netOp.prevTime, 100)

\* ((current - previous) / max(elapsed, 0.1)) * 8 / 1,000,000, on the integers
FormulaMbps(cur, prev) == Frac(cur - prev, ElapsedOfCall * 125)

\* C5 as stated: for every interface with a previous reading the reported
\* rates equal ((current - previous) / max(elapsed, 0.1)) * 8 / 1,000,000.
C5_RateIsDeltaOverElapsed ==
    Succeeded =>
        \A i \in WithPrevious :
            /\ netResult[i].RxRate =
                  FormulaMbps(netOp.stats[i].BytesReceived, netOp.prev[i].BytesReceived)
            /\ netResult[i].TxRate =
                  FormulaMbps(netOp.stats[i].BytesSent, netOp.prev[i].BytesSent)

\* the formula of C5 where no counter went down
C5_RateWhereCountersGrow ==
    Succeeded =>
        \A i \in WithPrevious :
            /\ netOp.stats[i].BytesReceived >= netOp.prev[i].BytesReceived =>
                  netResult[i].RxRate =
                      FormulaMbps(netOp.stats[i].BytesReceived,
                                  netOp.prev[i].BytesReceived)
            /\ netOp.stats[i].BytesSent >= netOp.prev[i].BytesSent =>
                  netResult[i].TxRate =
                      FormulaMbps(netOp.stats[i].BytesSent, netOp.prev[i].BytesSent)

\* previous = 1,000, current = 1,001,000, elapsed = 1.0 s: 8.0 Mbps
C5_EightMbps ==
    /\ Succeeded
    /\ "eth0" \in WithPrevious
    /\ netOp.prev["eth0"].BytesReceived = 1000
    /\ netOp.stats["eth0"].BytesReceived = 1001000
    /\ now - netOp.prevTime = 1000
    /\ netResult["eth0"].RxRate = <<8, 1>>

\* elapsed = 0 is computed with 0.1 s: 1,000,000 bytes give 80 Mbps
C5_ElapsedZero ==
    /\ Succeeded
    /\ "eth0" \in WithPrevious
    /\ netOp.prev["eth0"].BytesReceived = 1000
    /\ netOp.stats["eth0"].BytesReceived = 1001000
    /\ now - netOp.prevTime = 0
    /\ netResult["eth0"].RxRate = <<80, 1>>

\* the sample the last call pushed for interface i
LastPushed(i) == pushedLog[i][Len(pushedLog[i])]

\* C6 as stated: a counter lower than in the previous snapshot gives a rate of
\* 0, in the result and in the history entry pushed for that cycle.
C6_CounterResetGivesZero ==
    Succeeded =>
        \A i \in WithPrevious :
            /\ netOp.stats[i].BytesReceived < netOp.prev[i].BytesReceived =>
                  /\ netResult[i].RxRate = Zero
                  /\ LastPushed(i).RxRate = Zero
            /\ netOp.stats[i].BytesSent < netOp.prev[i].BytesSent =>
                  /\ netResult[i].TxRate = Zero
                  /\ LastPushed(i).TxRate = Zero

\* C7: an interface with no previous reading is returned with both rates 0,
\* nothing is pushed to its history, and its reading is stored as the
\* baseline, from which the next call that sees it computes a rate.
C7_FirstReadingIsBaseline ==
    Succeeded =>
        /\ \A i \in DOMAIN netOp.stats \ DOMAIN netOp.prev :
              /\ netResult[i].RxRate = Zero
              /\ netResult[i].TxRate = Zero
              /\ Len(pushedLog[i]) = netOp.pushedBefore[i]
              /\ i \in DOMAIN lastReadings
              /\ lastReadings[i] = netOp.stats[i]
        /\ \A i \in WithPrevious :
              /\ Len(pushedLog[i]) = netOp.pushedBefore[i] + 1
              /\ LastPushed(i).RxRate = netResult[i].RxRate
              /\ netResult[i].RxRate =
                    Frac((netOp.stats[i].BytesReceived - netOp.prev[i].BytesReceived)
                            % Modulus, ElapsedOfCall * 125)

\* wlan0, dropped from the readings by a call that did not see it, comes back
\* in a call that computes a rate for eth0: it is a first reading again
C7_Witness ==
    /\ Succeeded
    /\ "eth0" \in WithPrevious
    /\ "wlan0" \in DOMAIN netOp.stats \ DOMAIN netOp.prev
    /\ Len(pushedLog["wlan0"]) > 0
    /\ Len(pushedLog["wlan0"]) = netOp.pushedBefore["wlan0"]
    /\ netOp.stats["wlan0"].BytesReceived = 1001000
    /\ netResult["wlan0"].RxRate = Zero
    /\ lastReadings["wlan0"] = netOp.stats["wlan0"]

----------------------------------------------------------------------------
(* The log watcher *)

\* the last step was a return of getLogEntries that filtered a list of entries
ReturnedFiltered == logEvent.result.returned /\ logEvent.what # "open failed"

\* the entries of a list that the filter lets through
Kept(entries, includeDebug) ==
    SelectSeq(entries, LAMBDA e : includeDebug \/ e.Level # "debug")

\* C13 as stated: getLogEntries returns at most `limit` entries for every
\* limit >= 0: the first `limit` entries of the newest-first cached list, in
\* cache order, with every debug entry removed when includeDebug is false.
C13_ReturnsFirstLimitEntries ==
    ReturnedFiltered =>
        LET r == logEvent.result
            kept == Kept(r.from, r.includeDebug)
        IN /\ Len(r.entries) <= r.limit
           /\ r.entries = SubSeq(kept, 1, Min(r.limit, Len(kept)))

\* C14: a path never has more than one poller goroutine, and it has one
\* exactly when a watcher is registered for it; startLogWatcher for a path
\* that has an active watcher starts no goroutine and leaves the registered
\* watcher as it is, whatever the cache holds for the path.
C14_OnePollerPerPath ==
    [][\A p \in Paths :
          /\ pollers'[p] <= 1
          /\ pollers'[p] = 1 <=> Watched(p)'
          /\ (fg.pc = "watch" /\ fg.path = p /\ Watched(p) /\ fg'.pc = "idle") =>
                /\ pollers' = pollers
                /\ logWatchers' = logWatchers
                /\ poll' = poll]_vars

\* the second getLogEntries call for a path whose file and cached list are
\* empty has read the file again and found the watcher of the first call
C14_Witness ==
    /\ logEvent.what = "watched already"
    /\ calls = 2
    /\ \A p \in Paths :
          /\ logCache[p] = <<>>
          /\ pollers[p] = 1

\* C15 as stated, its last part: once the file has stopped changing, and no
\* read has failed, the cache entry of a watched path is in the end the parse
\* of the file's final content, and stays so.
C15_CacheCatchesUp ==
    \A p \in Paths :
        <>[](readFailures > 0 \/ ~Watched(p) \/ ~files[p].exists
             \/ logCache[p] \in parseLogFile(files[p].lines, p, files[p].mtime))

\* the goroutines that are at a read of logCache, and at a write of it
Reading == IF fg.pc = "read" THEN {Main} ELSE {}
Writing ==
    (IF fg.pc = "write" THEN {Main} ELSE {})
       \cup {p \in Paths : pollers[p] > 0 /\ poll[p].pc = "write"}

C17_FailedReadChangesNothing ==
    [][/\ logEvent'.what \in {"stat failed", "open failed"} =>
             /\ logCache' = logCache
             /\ logWatchers' = logWatchers
             /\ pollers' = pollers
             /\ logEvent'.who \in Paths => poll'[logEvent'.who].pc = "wait"
             /\ logEvent'.who = Main => logEvent'.result.entries = <<>>
       /\ (fg.pc = "write" /\ fg'.pc = "watch") => fg.complete
       /\ \A p \in Paths :
             (poll[p].pc = "write" /\ poll'[p].pc = "wait") => poll[p].complete]_vars

----------------------------------------------------------------------------
(* The callers of GetNetworkUsage *)

\* goroutine h reads or writes lastReadings, lastReadTime or trafficHistory
\* in this step
Accesses(h) ==
    /\ caller[h].pc \in {"read", "write", "history"}
    /\ caller'[h] # caller[h]

\* C18 as stated: while a caller is between its read of the previous
\* readings and its write of the new readings, lastReadTime and the traffic
\* history, no other caller reads or writes lastReadings, lastReadTime or
\* trafficHistory.
C18_ReadAndWriteAreAtomic ==
    [][\A g \in Callers, h \in Callers :
          (g # h /\ caller[g].pc = "write") => ~Accesses(h)]_vars

----------------------------------------------------------------------------
(* The watch loop *)

InWatchMode == watch.mode = "watch"

\* the order of the steps of a cycle
CycleSteps == <<"clear", "header", "gather", "render", "sleep">>

StartsWith(seq, start) ==
    /\ Len(start) <= Len(seq)
    /\ \A i \in 1..Len(start) : start[i] = seq[i]

\* the configured refresh interval, in ticks: -refresh, and 1 below 1
ConfiguredInterval == Max(watch.refreshRateFlag, 1) * Second

\* C19: in watch mode the loop has no terminal state, so that from every state
\* another cycle comes to its render and completes it; the steps of a cycle
\* occur in the order clear screen, header, gather, render, sleep, the render
\* completed before the sleep starts; and a sleep lasts the configured refresh
\* interval, which is never less than 1 second.
C19_LoopRunsOnInOrder ==
    /\ [](InWatchMode => <>(watch.pc = "render"))
    /\ [](InWatchMode /\ watch.pc = "render" => <>(watch.pc = "sleep"))
    /\ [](InWatchMode => StartsWith(CycleSteps, watch.steps))
    /\ [](InWatchMode /\ watch.slept # <<>> =>
            /\ watch.slept[1] = ConfiguredInterval
            /\ watch.slept[1] >= Second)

\* the resource named by the alerts of a section flag, and its warning threshold
ResourceOf(f) ==
    CASE f = "cpu" -> "CPU" [] f = "mem" -> "Memory" [] f = "disk" -> "Disk"

WarningOf(f) ==
    CASE f = "cpu" -> Thresholds.CPUWarning
      [] f = "mem" -> Thresholds.MemoryWarning
      [] f = "disk" -> Thresholds.DiskWarning

\* C20: every watch cycle evaluates the values it sampled between its gather
\* and its render: when the frame of a cycle has been rendered, every CPU,
\* memory or disk value of the cycle at or above its warning threshold has an
\* alert for its resource in the store, added in that cycle.
C20_BreachAlertedBeforeRender ==
    InWatchMode /\ watch.pc = "sleep" =>
        \A f \in DOMAIN watch.sampled :
            watch.sampled[f] >= WarningOf(f) =>
                \E i \in 1..Len(Alerts) :
                    /\ Alerts[i].Resource = ResourceOf(f)
                    /\ Alerts[i].Time > watch.clock

----------------------------------------------------------------------------
(* The command line *)

\* C21: whatever the other flags, a command line with both -watch and -json
\* is rejected at startup: Execute ends the process with the validation
\* error as its only output and a non-zero exit status, no section is
\* collected, and the watch loop is never entered.
C21_WatchWithJSONRejected ==
    watch.pc # "start" /\ watch.args.watch /\ watch.args.json =>
        /\ watch.pc = "exited"
        /\ watch.steps = <<"error">>
        /\ watch.exit # <<>> /\ watch.exit[1] # 0
        /\ watch.mode = "none"
        /\ watch.sections = <<>> /\ watch.sampled = <<>>

----------------------------------------------------------------------------
(* The renderer *)

\* the priority list of the function called
PriorityListOf(op) ==
    IF op = "GetSortedSectionNames" THEN priorityOrder ELSE sectionOrder

SortedCall == ui.op \in {"GetSortedSectionNames", "getSortedSectionNames"}

\* the remaining names of a call stand in lexicographic order from position
\* from on
RemainingSorted(result, from) ==
    \A i, j \in from..Len(result) : i < j => StringLess(result[i], result[j])

\* C22: the display order holds every present name exactly once: first the
\* names of the priority list that are present, in the order of the list,
\* then the remaining names in lexicographic order; so the order is a function
\* of the set of names.
C22_PriorityThenLexicographic ==
    SortedCall =>
        LET first == PresentInOrder(PriorityListOf(ui.op), ui.names)
        IN  /\ Len(ui.order) = Cardinality(ui.names)
            /\ Range(ui.order) = ui.names
            /\ SubSeq(ui.order, 1, Len(first)) = first
            /\ RemainingSorted(ui.order, Len(first) + 1)

TableCall == ui.op = "RenderProcessTable"

\* the longest cell of column i, the header included
LongestOfColumn(processes, i) ==
    CHOOSE n \in 0..20 :
        /\ \A r \in 1..Len(processes) : Len(processes[r][i]) <= n
        /\ \E r \in 1..Len(processes) : Len(processes[r][i]) = n

RECURSIVE Sum(_)
Sum(seq) == IF seq = <<>> THEN 0 ELSE Head(seq) + Sum(Tail(seq))

\* 4 + the sum of (width + 3) over the columns
Needed(widths) == 4 + Sum(widths) + 3 * Len(widths)

\* r is the floor of num / den
IsFloor(r, num, den) == r * den <= num /\ num < (r + 1) * den

\* C23: the natural width of a column is its longest cell over all rows, the
\* header included. When 4 + sum(width + 3) exceeds the available width, each
\* column is reduced by floor(width * excess / total) and set to 5 if that
\* leaves it below 5; otherwise every width keeps its natural value. Natural
\* widths 5, 20, 10 give the total 48 and, with 30 available, the excess 18.
C23_ReducedByShareOfExcess ==
    TableCall =>
        LET natural == ui.natural
            total == Needed(natural)
            excess == total - ui.width
            adjusted == ui.colWidths
        IN  /\ Len(natural) = Len(ui.processes[1])
            /\ \A i \in 1..Len(natural) :
                   natural[i] = LongestOfColumn(ui.processes, i)
            /\ ui.totalWidth = total
            /\ Len(adjusted) = Len(natural)
            /\ total > ui.width =>
                   \A i \in 1..Len(natural) :
                       \E r \in 0..excess :
                           /\ IsFloor(r, natural[i] * excess, total)
                           /\ adjusted[i] = Max(natural[i] - r, 5)
            /\ total <= ui.width => adjusted = natural
            /\ natural = <<5, 20, 10>> /\ ui.width = 30 =>
                   total = 48 /\ excess = 18

\* a table of natural widths 5, 20, 10 rendered in 30 columns
C23_Witness ==
    /\ TableCall
    /\ ui.natural = <<5, 20, 10>>
    /\ ui.width = 30
    /\ ui.colWidths = <<5, 13, 7>>

\* a call of one of the three functions that colour a usage percentage; for
\* FormatValueWithContext, on a key containing "Usage" and a formatted
\* percentage
ColouredUsage ==
    \/ ui.op \in {"PrintUsageBar", "PrintCompactUsageBar"}
    \/ /\ ui.op = "FormatValueWithContext"
       /\ ui.key \in UsageKeys
       /\ ui.value = "%.1f%%"

\* C24: each of the three functions colours a percentage below 60 green, one
\* from 60 to below 85 yellow and one of 85 or more red, so that the same
\* percentage has the same colour from all three.
C24_SameColourFromAll ==
    ColouredUsage =>
        ui.colorFunc = IF ui.percentage < 600 THEN "green"
                       ELSE IF ui.percentage < 850 THEN "yellow"
                       ELSE "red"

\* C26: after the adjustment the table fits, 4 + sum(width + 3) <= available
\* width, whenever the available width is at least 4 + 8 * (number of
\* columns), the room that columns of the minimum width 5 need.
C26_AdjustedTableFits ==
    TableCall /\ ui.width >= 4 + 8 * Len(ui.natural) =>
        Needed(ui.colWidths) <= ui.width

\* C30: the adjustment never makes a column wider than its natural width,
\* for every table and every available width.
C30_NeverWiderThanNatural ==
    TableCall =>
        \A i \in 1..Len(ui.natural) :
            ui.colWidths[i] <= ui.natural[i]

\* C29: CompactDisplay returns without a run-time fault for every terminal
\* width of 1 or more and every sections map whose rows have one or two
\* cells: no negative repeat count and no index out of range.
C29_CompactDisplayNeverFaults ==
    ui.op = "CompactDisplay" /\ ui.width >= 1 => ui.fault = ""

----------------------------------------------------------------------------
(* A failed read of the network statistics *)

\* the step is a call of GetNetworkUsage whose readNetworkStats failed
FailedCall == netOp'.op = "GetNetworkUsage" /\ netOp'.err

\* the step is a call of GetNetworkUsage that got the statistics
SuccessfulCall == netOp'.op = "GetNetworkUsage" /\ ~netOp'.err

\* the rate of a counter that went from prev to cur in the time since `since`
RateSince(cur, prev, since) == RateMbps(cur, prev, Elapsed(now', since))

\* C27: a call whose read of the statistics fails returns the empty list and
\* leaves lastReadings, lastReadTime and trafficHistory as they were; the
\* successful call that follows it computes its rates against the readings
\* and the time stored before the failure, those of the last successful call.
C27_FailedReadKeepsBaseline ==
    [][/\ FailedCall =>
           /\ netResult' = <<>>
           /\ UNCHANGED <<lastReadings, lastReadTime, trafficHistory>>
       /\ SuccessfulCall =>
           /\ lastReadings' = netOp'.stats
           /\ lastReadTime' = now'
       /\ Succeeded' /\ netOp.op = "GetNetworkUsage" /\ netOp.err =>
           \A i \in DOMAIN netOp'.stats \cap DOMAIN netOp.prev :
               /\ netResult'[i].RxRate =
                     RateSince(netOp'.stats[i].BytesReceived,
                               netOp.prev[i].BytesReceived, netOp.prevTime)
               /\ netResult'[i].TxRate =
                     RateSince(netOp'.stats[i].BytesSent,
                               netOp.prev[i].BytesSent, netOp.prevTime)]_vars

\* a successful call right after a failed one, with a rate for eth0 over the
\* time since the call before the failure
C27_Witness ==
    /\ Succeeded
    /\ netOp.afterFailure
    /\ "eth0" \in WithPrevious
    /\ netResult["eth0"].RxRate # Zero
    /\ now - netOp.prevTime > SteadyInterval

----------------------------------------------------------------------------
(* The level of a line *)

\* the words by which the level of a line is found
Keywords ==
    {"error", "fail", "exception", "warning", "warn", "info", "notice", "debug"}

HasKeyword(content) == \E i \in 1..Len(content) : content[i] \in Keywords

\* C28: the level of an entry is a function of the content of its line: two
\* entries with the same content, such as the same line parsed twice, have
\* the same level, also when the line holds keywords of several levels, and
\* a line with no keyword has the level info.
C28_LevelIsFunctionOfContent ==
    parseCall.op = "parseLogFile" =>
        \A i, j \in 1..Len(parseCall.entries) :
            /\ parseCall.entries[i].Content = parseCall.entries[j].Content =>
                   parseCall.entries[i].Level = parseCall.entries[j].Level
            /\ ~HasKeyword(parseCall.entries[i].Content) =>
                   parseCall.entries[i].Level = "info"

----------------------------------------------------------------------------
(* Locks and files *)

\* the goroutines that stand before a read of a file while they hold a mutex
ReadingUnderLock ==
    {g \in Callers : caller[g].pc = "read" /\ networkTrafficMu = g}
        \cup {p \in Paths : poll[p].pc = "open" /\ logCacheMutex.writer = p}
        \cup {m \in {Main} : /\ fg.pc = "open"
                              /\ \/ logCacheMutex.writer = m
                                 \/ m \in logCacheMutex.readers}

\* C25: no goroutine reads a file while it holds a mutex: GetNetworkUsage,
\* getLogEntries and checkLogFileChanges read and parse with no lock held and
\* take the lock only to store the result.
C25_NoLockWhileReadingFile == ReadingUnderLock = {}

====
